---------------------------- MODULE Spec2Model ----------------------------
(***************************************************************************)
(* A model of the Remi rules engine (src/src/lib/remi.ts) together with    *)
(* the Card and Deck types it is built on.  A card is the index of its     *)
(* entry in Pool, the list of cards in the order Deck.#createDeck creates  *)
(* them; two cards of equal suit and value are different cards.            *)
(***************************************************************************)
EXTENDS Integers, Sequences, FiniteSets, TLC

VARIABLES
    drawPile,           \* Deck.#drawPile, head first
    discardPile,        \* Deck.#discardPile, top last
    playerHands,        \* Remi.#playerHands
    playerMelds,        \* Remi.#playerMelds
    playersHaveOpened,  \* Remi.#playersHaveOpened
    currentPlayer,      \* Remi.#currentPlayer
    phase,              \* Remi.#phase
    numPlayers,         \* Remi.#numPlayers
    currentMelds,       \* Remi.#currentMelds
    currentScore,       \* Remi.#currentScore
    faceUp,             \* Card.#faceUp of every card
    ret,                \* what the last command returned, or that it threw
    events,             \* the events the last command emitted, in order
    commands,           \* accepted commands of this game (bounds the model)
    listeners,          \* GameEventEmitter.listeners: the callbacks of every type
    atEmission,         \* the callbacks of the event's type when emit was called
    delivered,          \* the callbacks emit invoked, in the order of the calls
    handles,            \* the unsubscribe functions on returned, in the order of the calls of on
    running             \* the commands whose emit has not returned: a listener is running

game == <<drawPile, discardPile, playerHands, playerMelds, playersHaveOpened,
          currentPlayer, phase, numPlayers, currentMelds, currentScore, faceUp>>

vars == <<drawPile, discardPile, playerHands, playerMelds, playersHaveOpened,
          currentPlayer, phase, numPlayers, currentMelds, currentScore, faceUp,
          ret, events, commands, listeners, atEmission, delivered, handles,
          running>>

emitter == <<listeners, atEmission, delivered, handles, running>>

-----------------------------------------------------------------------------
(* Bounds of the model.                                                    *)

\* accepted commands (draw, lay down, add, discard, reorder) per game
MaxCommands == 3

\* the highest position reorderHand is called with
MaxReorderIndex == 1

\* the callbacks subscribed to one event type at a time
MaxListeners == 3

\* the largest of the hands drawn from SolverBase
MaxHand == 6

\* the calls of on whose unsubscribe function is kept
MaxHandles == 3

-----------------------------------------------------------------------------
(* Program constants.                                                      *)

StartingHandSize == 14
MaxHandSize == 15
OpenRequirement == 51
JokerValue == 14

-----------------------------------------------------------------------------
(* Cards.  The pool is a part of the two-deck pool of 108 cards, listed in *)
(* creation order: suits HEART, DIAMOND, SPADE, CLUB with values           *)
(* ascending, then the black and the red joker, deck after deck.           *)

card(s, v) == [suit |-> s, value |-> v]

Pool ==
    << card("HEART", 1),    card("HEART", 3),    card("HEART", 7),    card("HEART", 8),
       card("HEART", 12),   card("HEART", 13),
       card("DIAMOND", 1),  card("DIAMOND", 2),  card("DIAMOND", 6),  card("DIAMOND", 7),
       card("DIAMOND", 11), card("DIAMOND", 12), card("DIAMOND", 13),
       card("SPADE", 1),    card("SPADE", 4),    card("SPADE", 7),    card("SPADE", 9),
       card("SPADE", 12),   card("SPADE", 13),
       card("CLUB", 3),     card("CLUB", 4),     card("CLUB", 5),     card("CLUB", 6),
       card("CLUB", 7),     card("CLUB", 8),     card("CLUB", 9),     card("CLUB", 13),
       card("JOKER_BLACK", JokerValue),
       card("HEART", 12) >>

Cards == 1..Len(Pool)

suit(c) == Pool[c].suit
value(c) == Pool[c].value

\* The card of the given suit and value of deck d (1 or 2) of the pool.
CardOf(s, v, d) ==
    LET same == {c \in Cards : suit(c) = s /\ value(c) = v}
        first == CHOOSE c \in same : \A o \in same : c <= o
    IN  IF d = 1 THEN first ELSE CHOOSE c \in same : c # first

HA == CardOf("HEART", 1, 1)
H3 == CardOf("HEART", 3, 1)
H7 == CardOf("HEART", 7, 1)
H8 == CardOf("HEART", 8, 1)
HQ == CardOf("HEART", 12, 1)
HK == CardOf("HEART", 13, 1)
DA == CardOf("DIAMOND", 1, 1)
D2 == CardOf("DIAMOND", 2, 1)
D6 == CardOf("DIAMOND", 6, 1)
D7 == CardOf("DIAMOND", 7, 1)
DJ == CardOf("DIAMOND", 11, 1)
DQ == CardOf("DIAMOND", 12, 1)
DK == CardOf("DIAMOND", 13, 1)
SA == CardOf("SPADE", 1, 1)
S4 == CardOf("SPADE", 4, 1)
S7 == CardOf("SPADE", 7, 1)
S9 == CardOf("SPADE", 9, 1)
SQ == CardOf("SPADE", 12, 1)
SK == CardOf("SPADE", 13, 1)
Cl3 == CardOf("CLUB", 3, 1)
Cl4 == CardOf("CLUB", 4, 1)
Cl5 == CardOf("CLUB", 5, 1)
Cl6 == CardOf("CLUB", 6, 1)
Cl7 == CardOf("CLUB", 7, 1)
Cl8 == CardOf("CLUB", 8, 1)
Cl9 == CardOf("CLUB", 9, 1)
ClK == CardOf("CLUB", 13, 1)
JkB == CardOf("JOKER_BLACK", JokerValue, 1)
HQ2 == CardOf("HEART", 12, 2)

-----------------------------------------------------------------------------
(* Array helpers.                                                          *)

Min(a, b) == IF a < b THEN a ELSE b
Max(a, b) == IF a > b THEN a ELSE b
Abs(a) == IF a < 0 THEN -a ELSE a

Range(s) == {s[i] : i \in 1..Len(s)}

\* Array.includes
includes(s, x) == \E i \in 1..Len(s) : s[i] = x

\* Array.indexOf, counted from 1; 0 when x is not in s
indexOf(s, x) ==
    IF includes(s, x)
    THEN CHOOSE i \in 1..Len(s) : s[i] = x /\ \A j \in 1..(i - 1) : s[j] # x
    ELSE 0

\* removeAt removing nothing
removeNone(s, i) == s

\* Array.splice(i, 1), i counted from 1
removeAt(s, i) == SubSeq(s, 1, i - 1) \o SubSeq(s, i + 1, Len(s))

\* Array.splice(i, 0, x), i counted from 1
insertAt(s, i, x) == SubSeq(s, 1, i - 1) \o <<x>> \o SubSeq(s, i, Len(s))

\* Array.flat
RECURSIVE flat(_)
flat(ss) == IF ss = <<>> THEN <<>> ELSE Head(ss) \o flat(Tail(ss))

RECURSIVE SumSeq(_)
SumSeq(s) == IF s = <<>> THEN 0 ELSE Head(s) + SumSeq(Tail(s))

\* Array.sort by a numeric key (a function of the elements): stable, ascending
RECURSIVE insertSorted(_, _, _)
insertSorted(s, x, key) ==
    IF s = <<>> THEN <<x>>
    ELSE IF key[s[Len(s)]] <= key[x] THEN Append(s, x)
    ELSE Append(insertSorted(SubSeq(s, 1, Len(s) - 1), x, key), s[Len(s)])

RECURSIVE sortBy(_, _)
sortBy(s, key) ==
    IF s = <<>> THEN <<>>
    ELSE insertSorted(sortBy(SubSeq(s, 1, Len(s) - 1), key), s[Len(s)], key)

-----------------------------------------------------------------------------
(* Meld validation and scoring: the private validators of Remi.            *)

isJoker(c) == suit(c) = "JOKER_RED" \/ suit(c) = "JOKER_BLACK"

jokersOf(cards) == SelectSeq(cards, LAMBDA c : isJoker(c))
regularsOf(cards) == SelectSeq(cards, LAMBDA c : ~isJoker(c))

\* #cardPointValue of a card object, given whether it is a joker and its value
pointValue(joker, v) ==
    IF joker THEN 0
    ELSE IF v = 1 THEN 10
    ELSE IF v >= 2 /\ v <= 10 THEN v
    ELSE IF v >= 11 /\ v <= 13 THEN 10
    ELSE IF v = 14 THEN 10
    ELSE 0

cardPointValue(c) == pointValue(isJoker(c), value(c))

\* isValidSet without the limit of one joker
isValidSetAnyJokers(cards) ==
    LET regularCards == regularsOf(cards)
    IN  /\ ~(Len(cards) < 3 \/ Len(cards) > 4)
        /\ ~(Len(regularCards) = 0)
        /\ \A i \in 1..Len(regularCards) :
               value(regularCards[i]) = value(regularCards[1])
        /\ Cardinality({suit(regularCards[i]) : i \in 1..Len(regularCards)})
               = Len(regularCards)

isValidSet(cards) ==
    LET jokers == jokersOf(cards)
        regularCards == regularsOf(cards)
    IN  /\ ~(Len(cards) < 3 \/ Len(cards) > 4)
        /\ ~(Len(jokers) > 1)
        /\ ~(Len(regularCards) = 0)
        /\ \A i \in 1..Len(regularCards) :
               value(regularCards[i]) = value(regularCards[1])
        /\ Cardinality({suit(regularCards[i]) : i \in 1..Len(regularCards)})
               = Len(regularCards)

\* the jokers of sortRunCards put back between the sorted regular cards
RECURSIVE interleaveJokers(_, _, _, _, _)
interleaveJokers(regulars, jokers, i, jokerIdx, result) ==
    IF i > Len(regulars)
    THEN result \o SubSeq(jokers, jokerIdx + 1, Len(jokers))
    ELSE IF i = Len(regulars)
    THEN interleaveJokers(regulars, jokers, i + 1, jokerIdx,
                          Append(result, regulars[i]))
    ELSE
        LET current == regulars[i]
            next == regulars[i + 1]
            currentVal == IF value(current) = 1 /\ value(next) >= 11
                          THEN 14 ELSE value(current)
            nextVal == IF value(next) = 1 /\ value(current) >= 11
                       THEN 14 ELSE value(next)
            gap == nextVal - currentVal - 1
            jokersToInsert == Max(0, Min(gap, Len(jokers) - jokerIdx))
        IN  interleaveJokers(regulars, jokers, i + 1, jokerIdx + jokersToInsert,
                Append(result, current)
                    \o SubSeq(jokers, jokerIdx + 1, jokerIdx + jokersToInsert))

sortRunCards(cards) ==
    LET jokers == jokersOf(cards)
        unsorted == regularsOf(cards)
        hasHighCards == \E i \in 1..Len(unsorted) : value(unsorted[i]) >= 11
        key == [c \in Range(unsorted) |->
                   IF value(c) = 1 /\ hasHighCards THEN 14 ELSE value(c)]
        regulars == sortBy(unsorted, key)
    IN  interleaveJokers(regulars, jokers, 1, 0, <<>>)

\* the loop of #validatePositionalRun over the positions idx of the regular
\* cards, from pair i on; isAscending is "null", "asc" or "desc"
RECURSIVE positionalSteps(_, _, _, _)
positionalSteps(cards, idx, i, isAscending) ==
    IF i > Len(idx) - 1 THEN TRUE
    ELSE
        LET jokersBetween == idx[i + 1] - idx[i] - 1
            requiredGap == jokersBetween + 1
            v1 == value(cards[idx[i]])
            v2 == value(cards[idx[i + 1]])
            diff == v2 - v1
            lowOk == Abs(diff) = requiredGap
            v1High == IF v1 = 1 THEN 14 ELSE v1
            v2High == IF v2 = 1 THEN 14 ELSE v2
            diffHigh == v2High - v1High
            highOk == ~lowOk /\ (v1 = 1 \/ v2 = 1) /\ Abs(diffHigh) = requiredGap
            validStep == lowOk \/ highOk
            stepDirection == IF lowOk THEN (IF diff > 0 THEN "asc" ELSE "desc")
                             ELSE (IF diffHigh > 0 THEN "asc" ELSE "desc")
        IN  IF ~validStep THEN FALSE
            ELSE IF isAscending = "null"
            THEN positionalSteps(cards, idx, i + 1, stepDirection)
            ELSE IF isAscending # stepDirection THEN FALSE
            ELSE positionalSteps(cards, idx, i + 1, isAscending)

validatePositionalRun(cards) ==
    LET positions == [i \in 1..Len(cards) |-> i]
        indexedRegulars == SelectSeq(positions, LAMBDA i : ~isJoker(cards[i]))
    IN  IF Len(indexedRegulars) < 2 THEN TRUE
        ELSE positionalSteps(cards, indexedRegulars, 1, "null")

isValidRun(cards) ==
    LET regularCards == regularsOf(cards)
    IN  /\ ~(Len(cards) < 3)
        /\ ~(Len(regularCards) = 0)
        /\ \A i \in 1..Len(regularCards) :
               suit(regularCards[i]) = suit(regularCards[1])
        /\ validatePositionalRun(sortRunCards(cards))

isValidMeld(cards) == isValidSet(cards) \/ isValidRun(cards)

\* the ranks of the slots of a run, counted one per slot from its first slot
buildSequenceWithJokers(meld, sortedValues) ==
    LET minValue == sortedValues[1]
        jokerFree == {i \in 1..Len(meld) : ~isJoker(meld[i])}
        leadingJokers == IF jokerFree = {} THEN Len(meld)
                         ELSE (CHOOSE i \in jokerFree :
                                   \A j \in jokerFree : i <= j) - 1
        startValue == IF sortedValues[1] = 1 /\ sortedValues[Len(sortedValues)] > 10
                      THEN 14 - Len(meld) + 1
                      ELSE minValue - leadingJokers
    IN  [i \in 1..Len(meld) |-> startValue + (i - 1)]

sortedValuesOf(regularCards) ==
    LET values == [i \in 1..Len(regularCards) |-> value(regularCards[i])]
    IN  sortBy(values, [v \in Range(values) |-> v])

getJokerValueInRun(joker, meld, regularCards) ==
    LET sequence == buildSequenceWithJokers(meld, sortedValuesOf(regularCards))
        jokerValue == sequence[indexOf(meld, joker)]
    IN  pointValue(FALSE, jokerValue)

getJokerValueInMeld(joker, meld) ==
    LET regularCards == regularsOf(meld)
    IN  IF Len(regularCards) = 0 THEN 0
        ELSE IF isValidSet(meld) THEN cardPointValue(regularCards[1])
        ELSE IF isValidRun(meld) THEN getJokerValueInRun(joker, meld, regularCards)
        ELSE 0

calculateMeldValue(meld) ==
    SumSeq([i \in 1..Len(meld) |->
               IF isJoker(meld[i]) THEN getJokerValueInMeld(meld[i], meld)
               ELSE cardPointValue(meld[i])])

calculateTotalMeldScore(melds) ==
    SumSeq([i \in 1..Len(melds) |-> calculateMeldValue(melds[i])])

\* the meld as layDownMelds stores it
sortMeldForDisplay(meld) == IF isValidRun(meld) THEN sortRunCards(meld) ELSE meld

-----------------------------------------------------------------------------
(* The deck.  shuffleArray draws j below i at every step, so the shuffled  *)
(* pile is the creation order moved by a permutation with a single cycle.  *)
(* DeckOrders are the shuffles the model starts a game from.               *)

RECURSIVE cycleLength(_, _, _)
cycleLength(order, at, seen) ==
    IF at \in seen THEN Cardinality(seen)
    ELSE cycleLength(order, order[at], seen \cup {at})

DeckOrders ==
    { << Cl6, H7, DQ, HA, Cl9, D7, Cl3, H3, JkB, S4, SK, DJ, SQ, H8, HQ, D6,
         Cl5, SA, HK, HQ2, Cl8, DA, Cl7, S7, DK, S9, Cl4, D2, ClK >> }

ShuffleOutcomes ==
    {order \in DeckOrders :
        /\ Len(order) = Len(Pool)
        /\ Range(order) = Cards
        /\ cycleLength(order, 1, {}) = Len(Pool)}

\* the numbers of players newGame is called with: two, and a number the
\* cards of the pool do not suffice for
PlayerCounts == {2, 3}

-----------------------------------------------------------------------------
(* Inputs of the commands.                                                 *)

Players == 0..(numPlayers - 1)

\* a player index: every player and one index that is out of range
PlayerArgs == 0..numPlayers

\* the card groups a caller submits to layDownMelds
MeldInputs ==
    { <<HK, DK, SK, JkB>>, <<HK, DK, SK, ClK>>, <<HQ, DQ, SQ>>, <<HQ, DQ, SQ, JkB>>,
      <<Cl3, Cl4, Cl5, Cl6, Cl7, Cl8, Cl9>>, <<Cl6, Cl7, Cl8>>, <<Cl7, Cl5, Cl6>>,
      <<HK, DK, SQ>>, <<HA, DA, SA>>, <<H7, D7, S7>>, <<Cl4, JkB, Cl6>>,
      <<DK, JkB, HK>>, <<Cl4, Cl6, JkB>> }

\* the lists of melds layDownMelds is called with: no meld, one, any two, and
\* the two lists of three that take 14 and 15 cards of a hand
MeldLists ==
    {<<>>} \cup {<<m>> : m \in MeldInputs}
           \cup {<<m, n>> : m \in MeldInputs, n \in MeldInputs}
           \cup { << <<HK, DK, SK, JkB>>, <<HQ, DQ, SQ>>,
                     <<Cl3, Cl4, Cl5, Cl6, Cl7, Cl8, Cl9>> >>,
                  << <<HK, DK, SK, ClK>>, <<HQ, DQ, SQ, JkB>>,
                     <<Cl3, Cl4, Cl5, Cl6, Cl7, Cl8, Cl9>> >> }

\* the positions reorderHand is called with, one of them below the hand
ReorderIndices == -1..MaxReorderIndex

\* a meld index: the melds a player may have, and one past them
MeldIndices ==
    0..Max(1, Max(Len(playerMelds[0]), Len(playerMelds[numPlayers - 1])))

-----------------------------------------------------------------------------
(* Events, without their timestamp.                                        *)

GameStarted(n) == [type |-> "GAME_STARTED", numPlayers |-> n, startingPlayer |-> 0]
PlayerTurnStarted(p, ph) ==
    [type |-> "PLAYER_TURN_STARTED", playerIndex |-> p, phase |-> ph]
CardDrawnFromDeck(p, c, n) ==
    [type |-> "CARD_DRAWN_FROM_DECK", playerIndex |-> p, card |-> c, handSize |-> n]
CardDrawnFromDiscard(p, c, n) ==
    [type |-> "CARD_DRAWN_FROM_DISCARD", playerIndex |-> p, card |-> c, handSize |-> n]
CardDiscarded(p, c, n) ==
    [type |-> "CARD_DISCARDED", playerIndex |-> p, card |-> c, handSize |-> n]
MeldsLaidDown(p, melds, score, opened) ==
    [type |-> "MELDS_LAID_DOWN", playerIndex |-> p, melds |-> melds,
     meldScore |-> score, playerHasOpened |-> opened]
\* replacedJoker is the joker taken out of the meld, 0 for null
CardAddedToMeld(p, c, idx, owner, joker) ==
    [type |-> "CARD_ADDED_TO_MELD", playerIndex |-> p, card |-> c,
     meldIndex |-> idx, meldOwner |-> owner, replacedJoker |-> joker]
PhaseChanged(ph, p) == [type |-> "PHASE_CHANGED", newPhase |-> ph, currentPlayer |-> p]
\* TurnEnded with the two players exchanged
TurnEndedReversed(prev, next) ==
    [type |-> "TURN_ENDED", previousPlayer |-> next, nextPlayer |-> prev]

TurnEnded(prev, next) ==
    [type |-> "TURN_ENDED", previousPlayer |-> prev, nextPlayer |-> next]
DrawPileShuffled(n) == [type |-> "DRAW_PILE_SHUFFLED", newDrawPileSize |-> n]
GameOver(w, scores) == [type |-> "GAME_OVER", winner |-> w, scores |-> scores]

-----------------------------------------------------------------------------
(* The event emitter.  A callback is a function of the caller; the model   *)
(* has three, which differ in what they do when they are invoked.          *)

\* the event types the model subscribes to
EventTypes == {"CARD_DISCARDED", "PHASE_CHANGED"}

Callbacks == {"render", "once", "stop"}

\* the callback whose unsubscribe function a callback calls when it is
\* invoked: "once" unsubscribes itself, "stop" unsubscribes "render", and
\* "render" calls none
unsubscribedBy(callback) ==
    CASE callback = "once" -> {"once"}
      [] callback = "stop" -> {"render"}
      [] OTHER -> {}

\* the unsubscribe function on returns: the first entry of the callback is
\* spliced out, if there is one
unsubscribe(callbacks, callback) ==
    IF indexOf(callbacks, callback) > 0
    THEN removeAt(callbacks, indexOf(callbacks, callback))
    ELSE callbacks

\* the list after the callback at position k ran
afterCall(callbacks, k) ==
    IF unsubscribedBy(callbacks[k]) = {} THEN callbacks
    ELSE unsubscribe(callbacks, CHOOSE target \in unsubscribedBy(callbacks[k]) : TRUE)

\* Array.forEach over the live list, from index k on: the indices run up to
\* the length the list had at the start, an index the list no longer has is
\* passed over.  The result is the list left and the callbacks invoked.
RECURSIVE forEach(_, _, _, _)
forEach(callbacks, k, len, invoked) ==
    IF k > len THEN [callbacks |-> callbacks, invoked |-> invoked]
    ELSE IF k > Len(callbacks) THEN forEach(callbacks, k + 1, len, invoked)
    ELSE forEach(afterCall(callbacks, k), k + 1, len, Append(invoked, callbacks[k]))

-----------------------------------------------------------------------------
(* newGame.                                                                *)

\* whether the deal runs out of cards: Deck.draw then returns undefined and
\* card.flip() throws, which ends newGame in the middle of the deal
dealFails(n, order) == n * StartingHandSize > Len(order)

\* the hands after the deal: 14 rounds, one card to each player in turn, as
\* far as the cards go
dealtHands(n, order) ==
    [p \in 0..(n - 1) |->
        LET rounds == {i \in 1..StartingHandSize : (i - 1) * n + p + 1 <= Len(order)}
        IN  [i \in 1..Cardinality(rounds) |-> order[(i - 1) * n + p + 1]]]

\* newGameState leaving the melds and the opened flags of the game before
newGameKeepingTable(n, order) ==
    /\ numPlayers' = n
    /\ currentPlayer' = 0
    /\ phase' = "DRAW"
    /\ playerHands' = dealtHands(n, order)
    /\ playerMelds' = [p \in 0..(n - 1) |->
                          IF p \in DOMAIN playerMelds THEN playerMelds[p] ELSE <<>>]
    /\ playersHaveOpened' = [p \in 0..(n - 1) |->
                                p \in DOMAIN playersHaveOpened /\ playersHaveOpened[p]]
    /\ currentMelds' = <<>>
    /\ currentScore' = 0
    /\ drawPile' = SubSeq(order, n * StartingHandSize + 1, Len(order))
    /\ discardPile' = <<>>
    /\ faceUp' = [c \in Cards |->
                     \E i \in 1..Min(n * StartingHandSize, Len(order)) : order[i] = c]
    /\ events' = IF dealFails(n, order) THEN <<>>
                 ELSE <<GameStarted(n), PlayerTurnStarted(0, "DRAW")>>
    /\ ret' = IF dealFails(n, order) THEN "throws" ELSE "void"
    /\ commands' = 0
    /\ UNCHANGED emitter

newGameState(n, order) ==
    /\ numPlayers' = n
    /\ currentPlayer' = 0
    /\ phase' = "DRAW"
    /\ playerHands' = dealtHands(n, order)
    /\ playerMelds' = [p \in 0..(n - 1) |-> <<>>]
    /\ playersHaveOpened' = [p \in 0..(n - 1) |-> FALSE]
    /\ currentMelds' = <<>>
    /\ currentScore' = 0
    /\ drawPile' = SubSeq(order, n * StartingHandSize + 1, Len(order))
    /\ discardPile' = <<>>
    /\ faceUp' = [c \in Cards |->
                     \E i \in 1..Min(n * StartingHandSize, Len(order)) : order[i] = c]
    /\ events' = IF dealFails(n, order) THEN <<>>
                 ELSE <<GameStarted(n), PlayerTurnStarted(0, "DRAW")>>
    /\ ret' = IF dealFails(n, order) THEN "throws" ELSE "void"
    /\ commands' = 0
    /\ UNCHANGED emitter

Init ==
    \E n \in PlayerCounts, order \in ShuffleOutcomes :
        /\ ~dealFails(n, order)
        /\ numPlayers = n
        /\ currentPlayer = 0
        /\ phase = "DRAW"
        /\ playerHands = dealtHands(n, order)
        /\ playerMelds = [p \in 0..(n - 1) |-> <<>>]
        /\ playersHaveOpened = [p \in 0..(n - 1) |-> FALSE]
        /\ currentMelds = <<>>
        /\ currentScore = 0
        /\ drawPile = SubSeq(order, n * StartingHandSize + 1, Len(order))
        /\ discardPile = <<>>
        /\ faceUp = [c \in Cards |->
                        \E i \in 1..(n * StartingHandSize) : order[i] = c]
        /\ events = <<GameStarted(n), PlayerTurnStarted(0, "DRAW")>>
        /\ ret = "void"
        /\ commands = 0
        /\ listeners = [t \in EventTypes |-> <<>>]
        /\ atEmission = <<>>
        /\ delivered = <<>>
        /\ handles = <<>>
        /\ running = <<>>

NewGame == \E n \in PlayerCounts, order \in ShuffleOutcomes : newGameState(n, order)

-----------------------------------------------------------------------------
(* Commands.  A rejected command returns false, emits nothing and leaves   *)
(* the game as it is.                                                      *)

Reject ==
    /\ ret' = "false"
    /\ events' = <<>>
    /\ UNCHANGED game
    /\ UNCHANGED commands
    /\ UNCHANGED emitter

Accept(emitted) ==
    /\ commands < MaxCommands
    /\ ret' = "true"
    /\ events' = emitted
    /\ commands' = commands + 1
    /\ UNCHANGED emitter

flip(face, c) == [face EXCEPT ![c] = ~face[c]]

RECURSIVE flipAll(_, _)
flipAll(face, cards) ==
    IF cards = <<>> THEN face ELSE flipAll(flip(face, Head(cards)), Tail(cards))

\* whether drawCard passes its checks of phase, player and hand size
\* drawCardAllowed with the capacity test off by one
drawCardAllowedBelow14(p) ==
    /\ ~(phase # "DRAW")
    /\ ~(p # currentPlayer)
    /\ ~(Len(playerHands[p]) >= MaxHandSize - 1)

drawCardAllowed(p) ==
    /\ ~(phase # "DRAW")
    /\ ~(p # currentPlayer)
    /\ ~(Len(playerHands[p]) >= MaxHandSize)

\* the draw pile drawCard draws from: refilled from the discard pile when empty
\* refilledDrawPile leaving the top card of the discard pile where it is
refilledBelowTop ==
    IF Len(drawPile) = 0 THEN SubSeq(discardPile, 1, Len(discardPile) - 1) ELSE drawPile

\* refilledDrawPile without the refill
drawPileAsItIs == drawPile

refilledDrawPile == IF Len(drawPile) = 0 THEN discardPile ELSE drawPile

DrawCard(p) ==
    IF ~drawCardAllowed(p) THEN Reject
       ELSE LET refill == Len(drawPile) = 0
                pile == refilledDrawPile
                shuffled == IF refill THEN <<DrawPileShuffled(Len(pile))>> ELSE <<>>
                face == IF refill THEN flipAll(faceUp, discardPile) ELSE faceUp
            IN  IF Len(pile) = 0
                THEN /\ ret' = "false"
                     /\ events' = shuffled
                     /\ UNCHANGED game
                     /\ UNCHANGED commands
                     /\ UNCHANGED emitter
                ELSE LET c == Head(pile)
                         hand == Append(playerHands[p], c)
                     IN  /\ drawPile' = Tail(pile)
                         /\ discardPile' = IF refill THEN <<>> ELSE discardPile
                         /\ faceUp' = flip(face, c)
                         /\ playerHands' = [playerHands EXCEPT ![p] = hand]
                         /\ phase' = "MELD"
                         /\ Accept(shuffled \o
                                <<CardDrawnFromDeck(p, c, Len(hand)),
                                  PhaseChanged("MELD", currentPlayer)>>)
                         /\ UNCHANGED <<playerMelds, playersHaveOpened, currentPlayer,
                                        numPlayers, currentMelds, currentScore>>

\* whether drawFromDiscard passes its checks
drawFromDiscardAllowed(p) ==
    /\ ~(phase # "DRAW")
    /\ ~(p # currentPlayer)
    /\ ~(Len(discardPile) = 0)
    /\ ~(Len(playerHands[p]) >= MaxHandSize)

DrawFromDiscard(p) ==
    IF ~drawFromDiscardAllowed(p) THEN Reject
       ELSE LET c == discardPile[Len(discardPile)]
                hand == Append(playerHands[p], c)
            IN  /\ discardPile' = SubSeq(discardPile, 1, Len(discardPile) - 1)
                /\ faceUp' = flip(faceUp, c)
                /\ playerHands' = [playerHands EXCEPT ![p] = hand]
                /\ phase' = "MELD"
                /\ Accept(<<CardDrawnFromDiscard(p, c, Len(hand)),
                            PhaseChanged("MELD", currentPlayer)>>)
                /\ UNCHANGED <<drawPile, playerMelds, playersHaveOpened,
                               currentPlayer, numPlayers, currentMelds, currentScore>>

-----------------------------------------------------------------------------
(* layDownMelds.                                                           *)

\* hand.splice(hand.indexOf(card), 1) for every card in turn, where found
RECURSIVE removeCards(_, _)
removeCards(hand, cards) ==
    IF cards = <<>> THEN hand
    ELSE LET idx == indexOf(hand, Head(cards))
         IN  removeCards(IF idx > 0 THEN removeAt(hand, idx) ELSE hand, Tail(cards))

\* whether the player may meld now: the phase and the turn
\* mayMeld with the phase DRAW let through
mayMeldBeforeDraw(p) ==
    /\ ~(phase # "MELD" /\ phase # "DISCARD" /\ phase # "DRAW")
    /\ ~(p # currentPlayer)

\* mayMeld without the test of the phase
mayMeldAnyPhase(p) == ~(p # currentPlayer)

mayMeld(p) ==
    /\ ~(phase # "MELD" /\ phase # "DISCARD")
    /\ ~(p # currentPlayer)

allCardsInHand(p, melds) ==
    LET cards == flat(melds)
    IN  \A i \in 1..Len(cards) : includes(playerHands[p], cards[i])

\* allValid that looks at the first meld only
firstValid(melds) ==
    IF melds = <<>> THEN TRUE ELSE isValidSet(melds[1]) \/ isValidRun(melds[1])

allValid(melds) == \A i \in 1..Len(melds) : isValidSet(melds[i]) \/ isValidRun(melds[i])

\* meetsOpenRequirement with the threshold itself excluded
meetsOpenRequirementAbove51(p, melds) ==
    ~(~playersHaveOpened[p] /\ calculateTotalMeldScore(melds) <= OpenRequirement)

meetsOpenRequirement(p, melds) ==
    ~(~playersHaveOpened[p] /\ calculateTotalMeldScore(melds) < OpenRequirement)

\* the return value of layDownMelds
layDownMeldsResult(p, melds) ==
    /\ mayMeld(p)
    /\ allCardsInHand(p, melds)
    /\ allValid(melds)
    /\ meetsOpenRequirement(p, melds)

\* hasOpened after a lay-down that opens every player
everyoneOpened(p) == [q \in DOMAIN playersHaveOpened |-> TRUE]

\* hasOpened after a lay-down that leaves the flags as they are
openedByNobody(p) == playersHaveOpened

\* hasOpened after a lay-down of player p
openedBy(p) == [playersHaveOpened EXCEPT ![p] = TRUE]

LayDownMelds(p, melds) ==
    IF ~layDownMeldsResult(p, melds) THEN Reject
       ELSE LET totalScore == calculateTotalMeldScore(melds)
                sortedMelds == [i \in 1..Len(melds) |-> sortMeldForDisplay(melds[i])]
                hand == removeCards(playerHands[p], flat(sortedMelds))
            IN  /\ playerHands' = [playerHands EXCEPT ![p] = hand]
                /\ playerMelds' = [playerMelds EXCEPT ![p] = @ \o sortedMelds]
                /\ playersHaveOpened' = openedBy(p)
                /\ currentScore' = 0
                /\ currentMelds' = <<>>
                /\ Accept(<<MeldsLaidDown(p, sortedMelds, totalScore, TRUE)>>)
                /\ UNCHANGED <<drawPile, discardPile, currentPlayer, phase,
                               numPlayers, faceUp>>

-----------------------------------------------------------------------------
(* addCardToMeld.  Meld indices count from 0, as in the code.              *)

meldExists(owner, idx) ==
    /\ owner \in DOMAIN playerMelds
    /\ idx >= 0
    /\ idx < Len(playerMelds[owner])

\* tableMeld that loses the first card of the meld
tableMeldWithoutFirst(owner, idx) == Tail(playerMelds[owner][idx + 1])

tableMeld(owner, idx) == playerMelds[owner][idx + 1]

getJokerRepresentedValueInRun(joker, meld) ==
    LET sequence == buildSequenceWithJokers(meld, sortedValuesOf(regularsOf(meld)))
    IN  sequence[indexOf(meld, joker)]

doesCardReplaceJoker(c, joker, meld) ==
    LET regularCards == regularsOf(meld)
        allSameValue == \A i \in 1..Len(regularCards) :
                            value(regularCards[i]) = value(regularCards[1])
        allDifferentSuits ==
            Cardinality({suit(regularCards[i]) : i \in 1..Len(regularCards)})
                = Len(regularCards)
        allSameSuit == \A i \in 1..Len(regularCards) :
                           suit(regularCards[i]) = suit(regularCards[1])
    IN  IF indexOf(meld, joker) = 0 THEN FALSE
        ELSE IF Len(regularCards) = 0 THEN FALSE
        ELSE IF allSameValue /\ allDifferentSuits
        THEN IF Len(regularCards) < 3 THEN FALSE
             ELSE /\ value(c) = value(regularCards[1])
                  /\ ~\E i \in 1..Len(regularCards) : suit(regularCards[i]) = suit(c)
        ELSE IF allSameSuit
        THEN /\ suit(c) = suit(regularCards[1])
             /\ value(c) = getJokerRepresentedValueInRun(joker, meld)
        ELSE FALSE

\* addCardToMeldResult that tests the meld as it is, without the added card
addCardToMeldResultUntested(p, c, owner, idx) ==
    /\ mayMeld(p)
    /\ ~(~playersHaveOpened[p])
    /\ meldExists(owner, idx)
    /\ includes(playerHands[p], c)
    /\ LET testMeld == tableMeld(owner, idx)
       IN  ~(~isValidSet(testMeld) /\ ~isValidRun(testMeld))

\* the return value of addCardToMeld
addCardToMeldResult(p, c, owner, idx) ==
    /\ mayMeld(p)
    /\ ~(~playersHaveOpened[p])
    /\ meldExists(owner, idx)
    /\ includes(playerHands[p], c)
    /\ LET testMeld == Append(tableMeld(owner, idx), c)
       IN  ~(~isValidSet(testMeld) /\ ~isValidRun(testMeld))

\* position (from 1) of the first joker of the meld, 0 when it has none
jokerIndexOf(meld) ==
    IF \E i \in 1..Len(meld) : isJoker(meld[i])
    THEN CHOOSE i \in 1..Len(meld) :
             isJoker(meld[i]) /\ \A j \in 1..(i - 1) : ~isJoker(meld[j])
    ELSE 0

\* whether addCardToMeld swaps the card for the meld's joker
replacesJoker(c, meld) ==
    LET jokerIndex == jokerIndexOf(meld)
    IN  /\ jokerIndex # 0
        /\ LET meldWithReplacement == [meld EXCEPT ![jokerIndex] = c]
           IN  isValidSet(meldWithReplacement) \/ isValidRun(meldWithReplacement)
        /\ doesCardReplaceJoker(c, meld[jokerIndex], meld)

AddCardToMeld(p, c, owner, idx) ==
    IF ~addCardToMeldResult(p, c, owner, idx) THEN Reject
       ELSE LET meld == tableMeld(owner, idx)
                hand == removeAt(playerHands[p], indexOf(playerHands[p], c))
                jokerIndex == jokerIndexOf(meld)
            IN  /\ IF replacesJoker(c, meld)
                   THEN /\ playerHands' =
                               [playerHands EXCEPT ![p] = Append(hand, meld[jokerIndex])]
                        /\ playerMelds' =
                               [playerMelds EXCEPT ![owner][idx + 1][jokerIndex] = c]
                        /\ Accept(<<CardAddedToMeld(p, c, idx, owner, meld[jokerIndex])>>)
                   ELSE /\ playerHands' = [playerHands EXCEPT ![p] = hand]
                        /\ playerMelds' =
                               [playerMelds EXCEPT ![owner][idx + 1] = Append(meld, c)]
                        /\ Accept(<<CardAddedToMeld(p, c, idx, owner, 0)>>)
                /\ UNCHANGED <<drawPile, discardPile, playersHaveOpened, currentPlayer,
                               phase, numPlayers, currentMelds, currentScore, faceUp>>

-----------------------------------------------------------------------------
(* discardCard, endTurn, endGame.                                          *)

\* the return value of discardCard
discardCardResult(p, c) ==
    /\ mayMeld(p)
    /\ ~(indexOf(playerHands[p], c) = 0)

\* the scores endGame reports: the points left in every hand
finalScores(hands) ==
    [q \in DOMAIN hands |->
        SumSeq([i \in 1..Len(hands[q]) |-> cardPointValue(hands[q][i])])]

\* nextPlayer that leaves the turn with the same player
samePlayer(p) == p % numPlayers

nextPlayer(p) == (p + 1) % numPlayers

DiscardCard(p, c) ==
    IF ~discardCardResult(p, c) THEN Reject
       ELSE LET hand == removeAt(playerHands[p], indexOf(playerHands[p], c))
                hands == [playerHands EXCEPT ![p] = hand]
                discarded == CardDiscarded(p, c, Len(hand))
            IN  /\ playerHands' = hands
                /\ discardPile' = Append(discardPile, c)
                /\ IF Len(hand) = 0
                   THEN /\ phase' = "GAME_OVER"
                        /\ UNCHANGED currentPlayer
                        /\ Accept(<<discarded,
                                    PhaseChanged("GAME_OVER", currentPlayer),
                                    GameOver(p, finalScores(hands))>>)
                   ELSE /\ currentPlayer' = nextPlayer(currentPlayer)
                        /\ phase' = "DRAW"
                        /\ Accept(<<discarded,
                                    TurnEnded(currentPlayer, nextPlayer(currentPlayer)),
                                    PhaseChanged("DRAW", nextPlayer(currentPlayer)),
                                    PlayerTurnStarted(nextPlayer(currentPlayer), "DRAW")>>)
                /\ UNCHANGED <<drawPile, playerMelds, playersHaveOpened, numPlayers,
                               currentMelds, currentScore, faceUp>>

-----------------------------------------------------------------------------
(* reorderHand.  Positions count from 0, as in the code.                   *)

\* the return value of reorderHand
reorderHandResult(p, fromIndex, toIndex) ==
    /\ ~(fromIndex < 0 \/ fromIndex >= Len(playerHands[p]))
    /\ ~(toIndex < 0 \/ toIndex >= Len(playerHands[p]))

ReorderHand(p, fromIndex, toIndex) ==
    IF ~reorderHandResult(p, fromIndex, toIndex) THEN Reject
       ELSE LET c == playerHands[p][fromIndex + 1]
                hand == insertAt(removeAt(playerHands[p], fromIndex + 1), toIndex + 1, c)
            IN  /\ playerHands' = [playerHands EXCEPT ![p] = hand]
                /\ Accept(<<>>)
                /\ UNCHANGED <<drawPile, discardPile, playerMelds, playersHaveOpened,
                               currentPlayer, phase, numPlayers, currentMelds,
                               currentScore, faceUp>>

-----------------------------------------------------------------------------

(* Every command is rejected for some arguments in every state (a player  *)
(* index out of range, a position below the hand), and every rejection is *)
(* the same step, so the rejections are one disjunct of Next: Next is the *)
(* disjunction of the seven commands over all their arguments.            *)

SomeCommandRejected ==
    \/ \E p \in PlayerArgs : ~drawCardAllowed(p)
    \/ \E p \in PlayerArgs : ~drawFromDiscardAllowed(p)
    \/ \E p \in PlayerArgs, melds \in MeldLists : ~layDownMeldsResult(p, melds)
    \/ \E p \in PlayerArgs, c \in Cards, owner \in PlayerArgs, idx \in MeldIndices :
           ~addCardToMeldResult(p, c, owner, idx)
    \/ \E p \in PlayerArgs, c \in Cards : ~discardCardResult(p, c)
    \/ \E p \in Players, fromIndex \in ReorderIndices, toIndex \in ReorderIndices :
           ~reorderHandResult(p, fromIndex, toIndex)

Rejected == (SomeCommandRejected = TRUE) /\ Reject

\* the model's bound on the accepted commands of a game
WithinBound == commands < MaxCommands

Next ==
    \/ NewGame
    \/ WithinBound /\ \E p \in PlayerArgs : drawCardAllowed(p) /\ DrawCard(p)
    \/ WithinBound /\ \E p \in PlayerArgs :
           drawFromDiscardAllowed(p) /\ DrawFromDiscard(p)
    \/ WithinBound /\ \E p \in PlayerArgs, melds \in MeldLists :
           layDownMeldsResult(p, melds) /\ LayDownMelds(p, melds)
    \/ WithinBound /\
           \E p \in PlayerArgs, c \in Cards, owner \in PlayerArgs, idx \in MeldIndices :
               addCardToMeldResult(p, c, owner, idx) /\ AddCardToMeld(p, c, owner, idx)
    \/ WithinBound /\ \E p \in PlayerArgs, c \in Cards :
           discardCardResult(p, c) /\ DiscardCard(p, c)
    \/ WithinBound /\
           \E p \in Players, fromIndex \in ReorderIndices, toIndex \in ReorderIndices :
               reorderHandResult(p, fromIndex, toIndex) /\ ReorderHand(p, fromIndex, toIndex)
    \/ Rejected

Spec == Init /\ [][Next]_vars

-----------------------------------------------------------------------------
(* Commands issued by a listener.  emit calls the listeners before it      *)
(* returns, so a listener that issues a command runs it in the middle of   *)
(* the command that emitted the event.  The specification Reentrancy       *)
(* splits drawCard, drawFromDiscard and discardCard at their first emit:   *)
(* the first half leaves the command in running, the commands of the       *)
(* listener are the commands above, and Resume is the second half.         *)

\* what the halves of a command leave alone
listenersKept == UNCHANGED <<listeners, atEmission, delivered, handles>>

\* drawCard up to its emit of CARD_DRAWN_FROM_DECK
BeginDrawCard(p) ==
    /\ running = <<>>
    /\ WithinBound
    /\ drawCardAllowed(p)
    /\ Len(refilledDrawPile) > 0
    /\ drawPile' = Tail(refilledDrawPile)
    /\ discardPile' = IF Len(drawPile) = 0 THEN <<>> ELSE discardPile
    /\ faceUp' = flip(IF Len(drawPile) = 0 THEN flipAll(faceUp, discardPile) ELSE faceUp,
                      Head(refilledDrawPile))
    /\ playerHands' = [playerHands EXCEPT ![p] = Append(@, Head(refilledDrawPile))]
    /\ events' = (IF Len(drawPile) = 0
                  THEN <<DrawPileShuffled(Len(refilledDrawPile))>> ELSE <<>>)
                     \o <<CardDrawnFromDeck(p, Head(refilledDrawPile),
                                            Len(playerHands[p]) + 1)>>
    /\ running' = <<[command |-> "drawCard", playerIndex |-> p]>>
    /\ commands' = commands + 1
    /\ UNCHANGED <<playerMelds, playersHaveOpened, currentPlayer, phase, numPlayers,
                   currentMelds, currentScore, ret>>
    /\ listenersKept

\* drawFromDiscard up to its emit of CARD_DRAWN_FROM_DISCARD
BeginDrawFromDiscard(p) ==
    /\ running = <<>>
    /\ WithinBound
    /\ drawFromDiscardAllowed(p)
    /\ discardPile' = SubSeq(discardPile, 1, Len(discardPile) - 1)
    /\ faceUp' = flip(faceUp, discardPile[Len(discardPile)])
    /\ playerHands' = [playerHands EXCEPT ![p] = Append(@, discardPile[Len(discardPile)])]
    /\ events' = <<CardDrawnFromDiscard(p, discardPile[Len(discardPile)],
                                        Len(playerHands[p]) + 1)>>
    /\ running' = <<[command |-> "drawFromDiscard", playerIndex |-> p]>>
    /\ commands' = commands + 1
    /\ UNCHANGED <<drawPile, playerMelds, playersHaveOpened, currentPlayer, phase,
                   numPlayers, currentMelds, currentScore, ret>>
    /\ listenersKept

\* discardCard up to its emit of CARD_DISCARDED
BeginDiscardCard(p, c) ==
    /\ running = <<>>
    /\ WithinBound
    /\ discardCardResult(p, c)
    /\ playerHands' = [playerHands EXCEPT ![p] = removeAt(@, indexOf(@, c))]
    /\ discardPile' = Append(discardPile, c)
    /\ events' = <<CardDiscarded(p, c, Len(playerHands[p]) - 1)>>
    /\ running' = <<[command |-> "discardCard", playerIndex |-> p]>>
    /\ commands' = commands + 1
    /\ UNCHANGED <<drawPile, playerMelds, playersHaveOpened, currentPlayer, phase,
                   numPlayers, currentMelds, currentScore, faceUp, ret>>
    /\ listenersKept

\* the command in running from the return of its emit on: setPhase(MELD) for
\* the draws; endGame or endTurn for discardCard, by the hand as it is now
Resume ==
    /\ running # <<>>
    /\ IF running[1].command = "discardCard"
       THEN IF Len(playerHands[running[1].playerIndex]) = 0
            THEN /\ phase' = "GAME_OVER"
                 /\ events' = <<PhaseChanged("GAME_OVER", currentPlayer),
                                GameOver(running[1].playerIndex, finalScores(playerHands))>>
                 /\ UNCHANGED currentPlayer
            ELSE /\ currentPlayer' = nextPlayer(currentPlayer)
                 /\ phase' = "DRAW"
                 /\ events' = <<TurnEnded(currentPlayer, nextPlayer(currentPlayer)),
                                PhaseChanged("DRAW", nextPlayer(currentPlayer)),
                                PlayerTurnStarted(nextPlayer(currentPlayer), "DRAW")>>
       ELSE /\ phase' = "MELD"
            /\ events' = <<PhaseChanged("MELD", currentPlayer)>>
            /\ UNCHANGED currentPlayer
    /\ ret' = "true"
    /\ running' = <<>>
    /\ UNCHANGED <<drawPile, discardPile, playerHands, playerMelds, playersHaveOpened,
                   numPlayers, currentMelds, currentScore, faceUp, commands>>
    /\ listenersKept

\* a listener is running
inListener == running # <<>>

ReentrancyNext ==
    \/ \E p \in PlayerArgs : BeginDrawCard(p)
    \/ \E p \in PlayerArgs : BeginDrawFromDiscard(p)
    \/ \E p \in PlayerArgs, c \in Cards : BeginDiscardCard(p, c)
    \/ inListener /\ \E p \in PlayerArgs : DrawCard(p)
    \/ inListener /\ \E p \in PlayerArgs : DrawFromDiscard(p)
    \/ inListener /\ \E p \in PlayerArgs, c \in Cards : DiscardCard(p, c)
    \/ Resume

Reentrancy == Init /\ [][ReentrancyNext]_vars

-----------------------------------------------------------------------------
(* validateMelds: the query a caller checks a selection of cards with.  It *)
(* applies the validators and the scoring to the selection, so the second  *)
(* specification, Validation, runs it over selections of cards.            *)

canCardsBeAdjacent(card1, card2) == ~(isJoker(card1) /\ isJoker(card2))

\* where the greedy group of #splitIntoMeldGroups stops: the first position
\* from j on whose card may not follow the card before it
RECURSIVE groupEnd(_, _)
groupEnd(cards, j) ==
    IF j > Len(cards) THEN j
    ELSE IF canCardsBeAdjacent(cards[j - 1], cards[j]) THEN groupEnd(cards, j + 1)
    ELSE j

\* the split points #splitIntoMeldGroups tries in a greedy group
splitPointsOf(currentGroup) ==
    IF Len(currentGroup) >= 6 THEN 3..(Len(currentGroup) - 3) ELSE {}

\* the first split point that leaves a valid meld before it and some meld
\* behind it (remainingMelds[splitPoint]); 0 when there is none
bestSplitOf(currentGroup, remainingMelds) ==
    LET validSplits == {splitPoint \in splitPointsOf(currentGroup) :
                           /\ isValidMeld(SubSeq(currentGroup, 1, splitPoint))
                           /\ Len(remainingMelds[splitPoint]) > 0}
    IN  IF validSplits = {} THEN 0
        ELSE CHOOSE splitPoint \in validSplits :
                 \A other \in validSplits : splitPoint <= other

\* what one pass of the while loop of #splitIntoMeldGroups at position i and
\* the passes after it add, where the greedy group ends before j and loop[k]
\* is what the loop adds from position k on
splitPass(i, j, currentGroup, bestSplit, remainingMelds, loop) ==
    IF bestSplit > 0
    THEN <<SubSeq(currentGroup, 1, bestSplit)>> \o remainingMelds[bestSplit]
             \o loop[i + bestSplit + Len(flat(remainingMelds[bestSplit]))]
    ELSE IF Len(currentGroup) >= 3 /\ isValidMeld(currentGroup)
    THEN <<currentGroup>> \o loop[j]
    ELSE loop[i + 1]

\* #splitIntoMeldGroups.  loop[i] is what the while loop adds from position
\* i on.  The loop looks at the cards from i on only, so the call of
\* #splitIntoMeldGroups on the remainder behind a split point is the loop
\* from the first position of the remainder, behind the test of the
\* remainder's length.
splitIntoMeldGroups(cards) ==
    LET loop[i \in 1..(Len(cards) + 1)] ==
            IF i > Len(cards) THEN <<>>
            ELSE
                LET j == groupEnd(cards, i + 1)
                    currentGroup == SubSeq(cards, i, j - 1)
                    remainingMelds ==
                        [splitPoint \in splitPointsOf(currentGroup) |->
                            IF Len(cards) - (i + splitPoint) + 1 < 3 THEN <<>>
                            ELSE loop[i + splitPoint]]
                IN  splitPass(i, j, currentGroup,
                              bestSplitOf(currentGroup, remainingMelds),
                              remainingMelds, loop)
    IN  IF Len(cards) < 3 THEN <<>> ELSE loop[1]

createEmptyValidation(selectedCards) ==
    [selectedCards |-> selectedCards, validMelds |-> <<>>,
     invalidCards |-> selectedCards, totalScore |-> 0, meldScores |-> <<>>,
     meetsOpenRequirement |-> FALSE, minimumNeeded |-> OpenRequirement,
     hasOpened |-> FALSE]

\* the MeldValidationResult validateMelds builds from the melds it found,
\* their scores and their sum
validationOf(selectedCards, validMelds, meldScores, totalScore, hasOpened) ==
    [selectedCards |-> selectedCards, validMelds |-> validMelds,
     invalidCards |-> SelectSeq(selectedCards,
                                LAMBDA c : c \notin Range(flat(validMelds))),
     totalScore |-> totalScore, meldScores |-> meldScores,
     meetsOpenRequirement |-> hasOpened \/ totalScore >= OpenRequirement,
     minimumNeeded |-> IF hasOpened THEN 0 ELSE Max(0, OpenRequirement - totalScore),
     hasOpened |-> hasOpened]

\* validationWithScores adding the sum to the score of the call before
validationAddingScores(selectedCards, validMelds, meldScores, hasOpened) ==
    validationOf(selectedCards, validMelds, meldScores,
                 currentScore + SumSeq(meldScores), hasOpened)

validationWithScores(selectedCards, validMelds, meldScores, hasOpened) ==
    validationOf(selectedCards, validMelds, meldScores, SumSeq(meldScores), hasOpened)

meldScoresOf(validMelds) ==
    [i \in 1..Len(validMelds) |-> calculateMeldValue(validMelds[i])]

validationFrom(selectedCards, validMelds, hasOpened) ==
    validationWithScores(selectedCards, validMelds, meldScoresOf(validMelds), hasOpened)

\* the MeldValidationResult of validateMelds
validateMeldsResult(playerIndex, selectedCards) ==
    validationFrom(selectedCards, splitIntoMeldGroups(selectedCards),
          playersHaveOpened[playerIndex])

ValidateMelds(playerIndex, selectedCards) ==
    /\ events' = <<>>
    /\ IF Len(selectedCards) < 3
       THEN /\ ret' = createEmptyValidation(selectedCards)
            /\ UNCHANGED <<currentMelds, currentScore>>
       ELSE /\ ret' = validateMeldsResult(playerIndex, selectedCards)
            /\ currentScore' = ret'.totalScore
            /\ currentMelds' = ret'.validMelds
    /\ UNCHANGED <<drawPile, discardPile, playerHands, playerMelds,
                   playersHaveOpened, currentPlayer, phase, numPlayers, faceUp,
                   commands>>
    /\ UNCHANGED emitter

\* the selections of length n over a set of cards, and those without a
\* card taken twice
Selections(cards, n) == [1..n -> cards]
Distinct(cards, n) == {s \in [1..n -> cards] : \A i, j \in 1..n : s[i] = s[j] => i = j}

\* the selections validateMelds is called with: groups of one rank, groups
\* of one suit, groups around the ace, each with the joker, below and above
\* the sizes of a meld, and two selections that hold more than one meld
SelectedCardsInputs ==
    Selections({HK, DK, JkB, SQ}, 3)
        \cup Distinct({HK, DK, SK, ClK}, 4)
        \cup Distinct({Cl4, Cl5, Cl6, JkB}, 3)
        \cup Distinct({Cl4, Cl5, Cl6, JkB}, 4)
        \cup Distinct({DA, D2, DQ, DK, JkB}, 3)
        \cup Distinct({DA, D2, DQ, DK}, 4)
        \cup Distinct({DA, DQ, DK, JkB}, 4)
        \cup { <<HK, DK>>, <<HK, DK, SK, ClK, JkB>>, <<HK, DK, SK, JkB>>,
               <<HK, JkB, DK, SK>>, <<HK, DK, JkB, JkB>>, <<HK, DK, SK, SQ>>,
               <<HK, DK, SK, HK>>, <<Cl4, Cl4, Cl5>>, <<Cl4, JkB, JkB>>,
               <<JkB, JkB, JkB>>,
               <<HQ, DQ, SQ, HQ2>>, <<HQ, DQ, HQ2>>, <<HQ, HQ2, JkB>>,
               <<Cl3, Cl4, Cl5, Cl6, Cl7>>, <<Cl7, Cl6, Cl5, Cl4, Cl3>>,
               <<Cl3, Cl4, JkB, Cl6, Cl7>>, <<Cl3, Cl4, Cl5, JkB, Cl6>>,
               <<JkB, JkB, Cl5, Cl6>>, <<Cl5, JkB, JkB, Cl8>>,
               <<H7, JkB, JkB>>, <<HQ, HK, HA>>, <<HA, HK, HQ>>,
               <<HQ, HK, JkB>>, <<HK, HA, JkB>>, <<JkB, HK, HA>>,
               <<H7, D7, JkB>>, <<D6, JkB, D7>>, <<JkB, Cl3, Cl5>>,
               <<HK, DK, SK, HQ, DQ, SQ>>,
               <<Cl3, Cl4, Cl5, Cl6, Cl7, Cl8, Cl9>>,
               <<HK, DK, SK, Cl6, Cl7, Cl8, H3>>,
               <<HK, DK, SK, H3, D6, S9, HQ, DQ, SQ>> }

ValidateNext ==
    \E p \in Players, selectedCards \in SelectedCardsInputs :
        ValidateMelds(p, selectedCards)

Validation == Init /\ [][ValidateNext]_vars

-----------------------------------------------------------------------------
(* Subscription and delivery.  The third specification, Delivery, runs the *)
(* emitter: callers subscribe and unsubscribe, and emit delivers an event  *)
(* of a command to the callbacks of its type.                              *)

\* GameEventEmitter.on
On(eventType, callback) ==
    /\ Len(listeners[eventType]) < MaxListeners
    /\ listeners' = [listeners EXCEPT ![eventType] = Append(@, callback)]
    /\ atEmission' = <<>>
    /\ delivered' = <<>>
    /\ UNCHANGED <<game, ret, events, commands, handles, running>>

\* a call of the function on returned, outside of a delivery
Unsubscribe(eventType, callback) ==
    /\ includes(listeners[eventType], callback)
    /\ listeners' = [listeners EXCEPT ![eventType] = unsubscribe(@, callback)]
    /\ atEmission' = <<>>
    /\ delivered' = <<>>
    /\ UNCHANGED <<game, ret, events, commands, handles, running>>

\* GameEventEmitter.emit of an event of the given type
Emit(eventType) ==
    LET callbacks == listeners[eventType]
        done == forEach(callbacks, 1, Len(callbacks), <<>>)
    IN  /\ callbacks # <<>>
        /\ listeners' = [listeners EXCEPT ![eventType] = done.callbacks]
        /\ atEmission' = callbacks
        /\ delivered' = done.invoked
        /\ UNCHANGED <<game, ret, events, commands, handles, running>>

DeliveryNext ==
    \/ \E eventType \in EventTypes, callback \in Callbacks : On(eventType, callback)
    \/ \E eventType \in EventTypes, callback \in Callbacks :
           Unsubscribe(eventType, callback)
    \/ \E eventType \in EventTypes : Emit(eventType)

Delivery == Init /\ [][DeliveryNext]_vars

-----------------------------------------------------------------------------
(* The unsubscribe functions.  on returns a function that holds the event  *)
(* type and the callback of the call.  The fourth specification,           *)
(* Subscription, keeps every function on returned together with the        *)
(* position of the entry its call of on pushed (at, 0 when the entry is    *)
(* gone) and whether it was called; no event is emitted.                   *)

\* the handles when the entry at position index (from 1, 0 for none) of the
\* callbacks of the event type is spliced out
afterSplice(eventType, index) ==
    [h \in 1..Len(handles) |->
        IF handles[h].eventType = eventType /\ index > 0
        THEN [handles[h] EXCEPT !.at = IF @ = index THEN 0
                                       ELSE IF @ > index THEN @ - 1 ELSE @]
        ELSE handles[h]]

\* GameEventEmitter.on, the function it returns kept
OnReturning(eventType, callback) ==
    /\ Len(handles) < MaxHandles
    /\ Len(listeners[eventType]) < MaxListeners
    /\ listeners' = [listeners EXCEPT ![eventType] = Append(@, callback)]
    /\ handles' = Append(handles, [eventType |-> eventType, callback |-> callback,
                                   at |-> Len(listeners[eventType]) + 1,
                                   called |-> FALSE])
    /\ atEmission' = <<>>
    /\ delivered' = <<>>
    /\ UNCHANGED <<game, ret, events, commands, running>>

\* a call of the function the h-th call of on returned
CallHandle(h) ==
    /\ h \in 1..Len(handles)
    /\ listeners' = [listeners EXCEPT ![handles[h].eventType] =
                         unsubscribe(@, handles[h].callback)]
    /\ handles' = [afterSplice(handles[h].eventType,
                               indexOf(listeners[handles[h].eventType],
                                       handles[h].callback))
                       EXCEPT ![h].called = TRUE]
    /\ atEmission' = <<>>
    /\ delivered' = <<>>
    /\ UNCHANGED <<game, ret, events, commands, running>>

SubscriptionNext ==
    \/ \E eventType \in EventTypes, callback \in Callbacks :
           OnReturning(eventType, callback)
    \/ \E h \in 1..MaxHandles : CallHandle(h)

Subscription == Init /\ [][SubscriptionNext]_vars

-----------------------------------------------------------------------------
(* The computer opponent (src/src/lib/ai-player.ts).  AIPlayer keeps its    *)
(* own copies of the validators; where a name of AIPlayer is also a name of *)
(* Remi the model's name begins with ai.                                    *)

aiIsValidSet(cards) ==
    LET regulars == regularsOf(cards)
        jokers == jokersOf(cards)
    IN  /\ ~(Len(cards) < 3)
        /\ ~(Len(regulars) = 0)
        /\ \A i \in 1..Len(regulars) : value(regulars[i]) = value(regulars[1])
        /\ Cardinality({suit(regulars[i]) : i \in 1..Len(regulars)}) = Len(regulars)
        /\ ~(Len(regulars) + Len(jokers) > 4)

\* the jokers of sortRunCardsForValidation and of orderCardsInMeldAdvanced
\* put back between the sorted regular cards
RECURSIVE aiInterleaveJokers(_, _, _, _, _, _)
aiInterleaveJokers(regulars, jokers, hasHighCards, i, jokerIdx, result) ==
    IF i > Len(regulars)
    THEN result \o SubSeq(jokers, jokerIdx + 1, Len(jokers))
    ELSE IF i = Len(regulars)
    THEN aiInterleaveJokers(regulars, jokers, hasHighCards, i + 1, jokerIdx,
                            Append(result, regulars[i]))
    ELSE
        LET current == regulars[i]
            next == regulars[i + 1]
            currentVal == IF value(current) = 1 /\ hasHighCards THEN 14 ELSE value(current)
            nextVal == IF value(next) = 1 /\ hasHighCards THEN 14 ELSE value(next)
            gap == nextVal - currentVal - 1
            jokersToInsert == Max(0, Min(gap, Len(jokers) - jokerIdx))
        IN  aiInterleaveJokers(regulars, jokers, hasHighCards, i + 1,
                jokerIdx + jokersToInsert,
                Append(result, current)
                    \o SubSeq(jokers, jokerIdx + 1, jokerIdx + jokersToInsert))

sortRunCardsForValidation(cards) ==
    LET jokers == jokersOf(cards)
        unsorted == regularsOf(cards)
        hasHighCards == \E i \in 1..Len(unsorted) : value(unsorted[i]) >= 11
        key == [c \in Range(unsorted) |->
                   IF value(c) = 1 /\ hasHighCards THEN 14 ELSE value(c)]
    IN  aiInterleaveJokers(sortBy(unsorted, key), jokers, hasHighCards, 1, 0, <<>>)

\* AIPlayer.validatePositionalRun is the code of Remi.#validatePositionalRun
aiValidatePositionalRun(cards) ==
    LET positions == [i \in 1..Len(cards) |-> i]
        indexedRegulars == SelectSeq(positions, LAMBDA i : ~isJoker(cards[i]))
    IN  IF Len(indexedRegulars) < 2 THEN TRUE
        ELSE positionalSteps(cards, indexedRegulars, 1, "null")

aiIsValidRun(cards) ==
    LET regularCards == regularsOf(cards)
    IN  /\ ~(Len(cards) < 3)
        /\ ~(Len(regularCards) = 0)
        /\ \A i \in 1..Len(regularCards) :
               suit(regularCards[i]) = suit(regularCards[1])
        /\ aiValidatePositionalRun(sortRunCardsForValidation(cards))

getCardPoints(c) ==
    IF isJoker(c) THEN 0
    ELSE IF value(c) = 1 THEN 10
    ELSE IF value(c) >= 2 /\ value(c) <= 10 THEN value(c)
    ELSE IF value(c) >= 11 /\ value(c) <= 13 THEN 10
    ELSE IF value(c) = 14 THEN 10
    ELSE 0

calcScore(meld) == SumSeq([i \in 1..Len(meld) |-> getCardPoints(meld[i])])

calculateDeadwood(cards) == SumSeq([i \in 1..Len(cards) |-> getCardPoints(cards[i])])

\* the id of a card is unique, so findIndex by id finds the card itself
RECURSIVE canMakeMeld(_, _)
canMakeMeld(meldCards, availableCards) ==
    IF meldCards = <<>> THEN TRUE
    ELSE LET index == indexOf(availableCards, Head(meldCards))
         IN  IF index = 0 THEN FALSE
             ELSE canMakeMeld(Tail(meldCards), removeAt(availableCards, index))

\* removeCards removing nothing
keepCards(source, toRemove) == source

RECURSIVE aiRemoveCards(_, _)
aiRemoveCards(source, toRemove) ==
    IF toRemove = <<>> THEN source
    ELSE LET idx == indexOf(source, Head(toRemove))
         IN  aiRemoveCards(IF idx # 0 THEN removeAt(source, idx) ELSE source,
                           Tail(toRemove))

\* the arrays ss[lo], ..., ss[hi] one after the other (push of each in turn)
RECURSIVE concat(_, _, _)
concat(ss, lo, hi) ==
    IF lo > hi THEN <<>>
    ELSE IF lo = hi THEN ss[lo]
    ELSE concat(ss, lo, (lo + hi) \div 2) \o concat(ss, (lo + hi) \div 2 + 1, hi)

pushAll(ss) == concat(ss, 1, Len(ss))

\* head put before each of the combinations of the tail
withHead(head, tailCombinations) ==
    [k \in 1..Len(tailCombinations) |-> <<head>> \o tailCombinations[k]]

RECURSIVE getCombinations(_, _)
getCombinations(arr, size) ==
    IF size > Len(arr) THEN <<>>
    ELSE IF size = 1 THEN [i \in 1..Len(arr) |-> <<arr[i]>>]
    ELSE pushAll([i \in 1..(Len(arr) - size + 1) |->
                  withHead(arr[i],
                           getCombinations(SubSeq(arr, i + 1, Len(arr)), size - 1))])

calculateMeldPriority(meld, hand, type) ==
    Len(meld) * 2
        + Len(jokersOf(meld)) * 5
        + (IF type = "RUN" THEN 3 ELSE 0)
        + Len(SelectSeq(meld, LAMBDA c : getCardPoints(c) >= 10)) * 2

\* a MeldCandidate: its efficiency is score / Len(cards), a fraction the
\* model compares without dividing
MeldCandidate(meld, score, type, hand) ==
    [cards |-> meld, score |-> score, type |-> type,
     priority |-> calculateMeldPriority(meld, hand, type)]

\* the candidates of one combination: the meld groups validateMelds finds
\* in it, with the scores it gives them
candidatesOf(validMelds, hand) ==
    [i \in 1..Len(validMelds) |->
        MeldCandidate(validMelds[i], calculateMeldValue(validMelds[i]),
                      IF aiIsValidSet(validMelds[i]) THEN "SET" ELSE "RUN", hand)]

candidatesOfSize(combinations, hand) ==
    pushAll([k \in 1..Len(combinations) |->
             candidatesOf(splitIntoMeldGroups(combinations[k]), hand)])

\* the key of a candidate is the sorted list of the ids of its cards: two
\* candidates have the same key when they hold the same cards, and the first
\* candidate of a key is the one that is kept
deduplicateCandidates(candidates) ==
    LET keys == [i \in 1..Len(candidates) |-> Range(candidates[i].cards)]
        first == SelectSeq([i \in 1..Len(candidates) |-> i],
                           LAMBDA i : \A j \in 1..(i - 1) : keys[j] # keys[i])
    IN  [k \in 1..Len(first) |-> candidates[first[k]]]

findAllValidCandidates(hand, playerIndex) ==
    deduplicateCandidates(
        pushAll([k \in 1..Max(0, Min(Len(hand), 13) - 2) |->
                 candidatesOfSize(getCombinations(hand, k + 2), hand)]))

\* b.efficiency - a.efficiency, multiplied by the lengths of both melds
efficiencyGap(a, b) == b.score * Len(a.cards) - a.score * Len(b.cards)

\* the comparator solveHandWithValidation sorts the candidates with
compareCandidates(a, b) ==
    IF 2 * Abs(efficiencyGap(a, b)) > Len(a.cards) * Len(b.cards)
    THEN efficiencyGap(a, b)
    ELSE IF b.priority # a.priority THEN b.priority - a.priority
    ELSE b.score - a.score

\* Array.sort with a comparator: stable
RECURSIVE insertCandidate(_, _)
insertCandidate(s, x) ==
    IF s = <<>> THEN <<x>>
    ELSE IF compareCandidates(s[Len(s)], x) <= 0 THEN Append(s, x)
    ELSE Append(insertCandidate(SubSeq(s, 1, Len(s) - 1), x), s[Len(s)])

RECURSIVE sortCandidates(_)
sortCandidates(s) ==
    IF s = <<>> THEN <<>>
    ELSE insertCandidate(sortCandidates(SubSeq(s, 1, Len(s) - 1)), s[Len(s)])

HandSolution(melds, remainingCards, totalScore) ==
    [melds |-> melds, remainingCards |-> remainingCards, totalScore |-> totalScore,
     deadwoodValue |-> calculateDeadwood(remainingCards),
     canGoOut |-> Len(remainingCards) = 1]

isBetterSolution(candidate, current) ==
    IF candidate.canGoOut /\ ~current.canGoOut THEN TRUE
    ELSE IF ~candidate.canGoOut /\ current.canGoOut THEN FALSE
    ELSE IF candidate.totalScore > current.totalScore + 5 THEN TRUE
    ELSE IF current.totalScore > candidate.totalScore + 5 THEN FALSE
    ELSE IF Abs(candidate.totalScore - current.totalScore) <= 5
    THEN candidate.deadwoodValue < current.deadwoodValue
    ELSE candidate.totalScore > current.totalScore

\* the better of the result of a branch and the best solution so far
betterOf(subResult, bestSolution) ==
    IF isBetterSolution(subResult, bestSolution) THEN subResult ELSE bestSolution

RECURSIVE findBestCombinationAdvanced(_, _, _, _, _)
RECURSIVE bestFrom(_, _, _, _, _, _, _)

\* the loop of findBestCombinationAdvanced from candidate i on
bestFrom(candidates, i, availableCards, chosenMelds, scoreSoFar, depth, bestSolution) ==
    IF i > Len(candidates) THEN bestSolution
    ELSE IF canMakeMeld(candidates[i].cards, availableCards)
    THEN bestFrom(candidates, i + 1, availableCards, chosenMelds, scoreSoFar, depth,
             betterOf(findBestCombinationAdvanced(
                          SubSeq(candidates, i + 1, Len(candidates)),
                          aiRemoveCards(availableCards, candidates[i].cards),
                          Append(chosenMelds, candidates[i].cards),
                          scoreSoFar + candidates[i].score,
                          depth + 1),
                      bestSolution))
    ELSE bestFrom(candidates, i + 1, availableCards, chosenMelds, scoreSoFar, depth,
                  bestSolution)

findBestCombinationAdvanced(candidates, availableCards, chosenMelds, scoreSoFar, depth) ==
    IF depth > 25
    THEN HandSolution(chosenMelds, availableCards, scoreSoFar)
    ELSE bestFrom(candidates, 1, availableCards, chosenMelds, scoreSoFar, depth,
                  HandSolution(chosenMelds, availableCards, scoreSoFar))

solveHandWithValidation(hand, playerIndex) ==
    findBestCombinationAdvanced(
        sortCandidates(findAllValidCandidates(hand, playerIndex)), hand, <<>>, 0, 0)

\* String.localeCompare on the names of the suits, the jokers after them
suitRank(c) ==
    IF isJoker(c) THEN 5
    ELSE IF suit(c) = "CLUB" THEN 1
    ELSE IF suit(c) = "DIAMOND" THEN 2
    ELSE IF suit(c) = "HEART" THEN 3
    ELSE 4

orderCardsInMeldAdvanced(meld) ==
    IF ~aiIsValidRun(meld)
    THEN sortBy(meld, [c \in Range(meld) |-> suitRank(c)])
    ELSE sortRunCardsForValidation(meld)

\* the cards of the hand that are in none of the melds
outsideMelds(hand, melds) ==
    SelectSeq(hand, LAMBDA c : c \notin Range(flat(melds)))

\* step 2 of planMeldAndDiscard: the melds of the solution to lay down
strategicMelds(difficulty, hasOpened, hand, solution) ==
    IF difficulty = "HARD"
    THEN IF hasOpened
         THEN IF solution.canGoOut /\ Len(solution.remainingCards) = 1
              THEN solution.melds
              ELSE IF Len(solution.remainingCards) <= 3 /\ solution.deadwoodValue <= 15
              THEN solution.melds
              ELSE IF solution.totalScore >= 30
              THEN LET highValueMelds ==
                           SelectSeq(solution.melds, LAMBDA m : calcScore(m) >= 15)
                   IN  IF Len(highValueMelds) > 0 THEN highValueMelds ELSE solution.melds
              ELSE SubSeq(solution.melds, 1,
                          Min(Len(solution.melds), Max(1, Len(solution.melds) \div 2)))
         ELSE IF solution.totalScore >= OpenRequirement
              THEN LET remainingAfterMelds == outsideMelds(hand, solution.melds)
                       remainingDeadwood == calculateDeadwood(remainingAfterMelds)
                   IN  IF remainingDeadwood <= 10 /\ Len(remainingAfterMelds) <= 2
                       THEN <<>>
                       ELSE IF solution.totalScore >= 70 THEN solution.melds
                       ELSE IF Len(remainingAfterMelds) <= 4 THEN solution.melds
                       ELSE <<>>
              ELSE <<>>
    ELSE IF hasOpened THEN solution.melds
         ELSE IF solution.totalScore >= OpenRequirement THEN solution.melds
         ELSE <<>>

\* heldBack holding no meld back
allLaid(hand, meldsToLay) == meldsToLay

\* step 3.1: a meld is held back when the melds would take the whole hand
heldBack(hand, meldsToLay) ==
    IF Len(outsideMelds(hand, meldsToLay)) = 0 /\ Len(meldsToLay) > 0
    THEN LET indices == [i \in 1..Len(meldsToLay) |-> i]
             meldScores == sortBy(indices,
                               [i \in 1..Len(meldsToLay) |->
                                   calcScore(meldsToLay[i]) * 100 + Len(meldsToLay[i])])
         IN  removeAt(meldsToLay, meldScores[1])
    ELSE meldsToLay

getAllTableMelds ==
    flat([q \in 1..numPlayers |->
             [i \in 1..Len(playerMelds[q - 1]) |->
                 [cards |-> playerMelds[q - 1][i], owner |-> q - 1, index |-> i - 1]]])

wouldReplaceJoker(c, meld) ==
    LET jokerIndex == jokerIndexOf(meld)
        regularCards == regularsOf(meld)
    IN  IF isJoker(c) THEN FALSE
        ELSE IF jokerIndex = 0 THEN FALSE
        ELSE IF aiIsValidSet([meld EXCEPT ![jokerIndex] = c])
                \/ aiIsValidRun([meld EXCEPT ![jokerIndex] = c])
        THEN IF Len(regularCards) = 0 THEN FALSE
             ELSE IF \A i \in 1..Len(regularCards) :
                         value(regularCards[i]) = value(regularCards[1])
             THEN /\ value(c) = value(regularCards[1])
                  /\ \A i \in 1..Len(regularCards) : suit(regularCards[i]) # suit(c)
             ELSE TRUE
        ELSE FALSE

\* the score findBestMeldToAddCard gives to adding the card to the meld
additionScore(c, meld, playerIndex) ==
    getCardPoints(c) * 10
        + (IF Len(jokersOf(meld.cards)) > 0 /\ wouldReplaceJoker(c, meld.cards)
           THEN 100 ELSE 0)
        + (IF meld.owner # playerIndex THEN 20 ELSE 0)
        + (IF Len(meld.cards) + 1 >= 6 THEN 15 ELSE 0)

\* the loop of findBestMeldToAddCard; bestTarget is <<>> for null
RECURSIVE bestTargetFrom(_, _, _, _, _)
bestTargetFrom(c, allMelds, playerIndex, k, bestTarget) ==
    IF k > Len(allMelds) THEN bestTarget
    ELSE IF aiIsValidSet(Append(allMelds[k].cards, c))
            \/ aiIsValidRun(Append(allMelds[k].cards, c))
    THEN IF bestTarget = <<>>
            \/ additionScore(c, allMelds[k], playerIndex) > bestTarget[1].score
         THEN bestTargetFrom(c, allMelds, playerIndex, k + 1,
                  << [owner |-> allMelds[k].owner, index |-> allMelds[k].index,
                      score |-> additionScore(c, allMelds[k], playerIndex)] >>)
         ELSE bestTargetFrom(c, allMelds, playerIndex, k + 1, bestTarget)
    ELSE bestTargetFrom(c, allMelds, playerIndex, k + 1, bestTarget)

findBestMeldToAddCard(c, allMelds, playerIndex) ==
    bestTargetFrom(c, allMelds, playerIndex, 1, <<>>)

\* the addition of the card to its best target, if it has one
additionOf(c, bestTarget) ==
    IF bestTarget = <<>> THEN <<>>
    ELSE << [card |-> c, meldOwner |-> bestTarget[1].owner,
             meldIndex |-> bestTarget[1].index, score |-> bestTarget[1].score] >>

\* the additions of the highest scores, at most maxCardsToAdd of them
topAdditions(possibleAdditions, maxCardsToAdd) ==
    LET sorted == sortBy(possibleAdditions,
                         [a \in Range(possibleAdditions) |-> 0 - a.score])
    IN  [k \in 1..Min(maxCardsToAdd, Len(sorted)) |->
            [card |-> sorted[k].card, meldOwner |-> sorted[k].meldOwner,
             meldIndex |-> sorted[k].meldIndex]]

\* step 3.5: the cards to add to the melds of the table
additionsToMake(difficulty, hasOpened, hand, meldsToLay, playerIndex) ==
    IF hasOpened /\ difficulty = "HARD"
    THEN LET availableForAdding == outsideMelds(hand, meldsToLay)
             maxCardsToAdd == Max(0, Len(availableForAdding) - 1)
             possibleAdditions ==
                 flat([k \in 1..Len(availableForAdding) |->
                          additionOf(availableForAdding[k],
                              findBestMeldToAddCard(availableForAdding[k],
                                                    getAllTableMelds, playerIndex))])
         IN  topAdditions(possibleAdditions, maxCardsToAdd)
    ELSE <<>>

\* selectCardFromMelds: the first card of the fewest points
selectCardFromMelds(melds) ==
    LET allMeldCards == flat(melds)
    IN  sortBy(allMeldCards, [c \in Range(allMeldCards) |-> getCardPoints(c)])[1]

\* config.randomness in tenths: 0, and the 0.1 and 0.2 of the scene
RandomnessInputs == {0, 1, 2}

\* selectBestDiscardAdvanced: the cards it may return.  A joker scores 9999
\* and every other card less, in an order that depends on the cards the
\* player has seen, so the sorted list has the other cards in some order and
\* then the jokers in the order given; the card returned is the first of the
\* list, or with randomness above 0 and Math.random() below 0.3 the second
selectBestDiscardAdvanced(cards, randomness) ==
    LET others == regularsOf(cards)
        sortedHeads ==
            IF Len(others) >= 2
            THEN {<<a, b>> : a, b \in Range(others)} \ {<<c, c>> : c \in Range(others)}
            ELSE {SubSeq(others \o jokersOf(cards), 1, Min(2, Len(cards)))}
    IN  {worstChoices[1] : worstChoices \in sortedHeads}
            \cup {worstChoices[2] :
                      worstChoices \in {w \in sortedHeads : randomness > 0 /\ Len(w) > 1}}

\* step 4: the cards the discard is chosen from
discardChoices(hand, meldsToLay, randomness) ==
    IF Len(outsideMelds(hand, meldsToLay)) = 0
    THEN {selectCardFromMelds(meldsToLay)}
    ELSE selectBestDiscardAdvanced(outsideMelds(hand, meldsToLay), randomness)

\* step 3: every meld in the order of orderCardsInMeldAdvanced
orderedMelds(melds) == [i \in 1..Len(melds) |-> orderCardsInMeldAdvanced(melds[i])]

\* the melds of a plan after steps 2, 3 and 3.1
meldsToLayOf(difficulty, hasOpened, hand, solution) ==
    heldBack(hand, orderedMelds(strategicMelds(difficulty, hasOpened, hand, solution)))

\* validateMelds as the solver calls it keeps the melds and the score of the
\* selection in the engine; the last selection is the last combination of
\* the largest size
lastCombination(hand) ==
    SubSeq(hand, Len(hand) - Min(Len(hand), 13) + 1, Len(hand))

\* the score validateMelds stores for the melds it found
storedScore(validMelds) == SumSeq(meldScoresOf(validMelds))

\* what the calls of a solver run leave in the engine
solverTrace(hand, validMelds) ==
    IF Len(hand) < 3 THEN UNCHANGED <<currentMelds, currentScore>>
    ELSE /\ currentMelds' = validMelds
         /\ currentScore' = storedScore(validMelds)

\* the scene asks for a plan when the player has drawn
hasDrawn == Len(events) > 0 /\ events[Len(events)] = PhaseChanged("MELD", currentPlayer)

\* what a call of the computer opponent leaves alone
aiFrame ==
    /\ events' = <<>>
    /\ UNCHANGED <<drawPile, discardPile, playerHands, playerMelds, playersHaveOpened,
                   currentPlayer, phase, numPlayers, faceUp, commands>>
    /\ UNCHANGED emitter

\* solveHandWithValidation returning its solution
solved(hand, solution) ==
    /\ ret' = solution
    /\ solverTrace(hand, splitIntoMeldGroups(lastCombination(hand)))
    /\ aiFrame

SolveHandWithValidation(playerIndex) ==
    /\ hasDrawn
    /\ playerIndex = currentPlayer
    /\ solved(playerHands[playerIndex],
              solveHandWithValidation(playerHands[playerIndex], playerIndex))

\* planMeldAndDiscard returning its plan, given the melds it lays down
planned(difficulty, hasOpened, hand, meldsToLay, playerIndex) ==
    /\ \E randomness \in RandomnessInputs :
       \E cardToDiscard \in discardChoices(hand, meldsToLay, randomness) :
           ret' = [meldsToLay |-> meldsToLay, cardToDiscard |-> cardToDiscard,
                   cardsToAddToMelds |->
                       additionsToMake(difficulty, hasOpened, hand, meldsToLay,
                                       playerIndex)]
    /\ solverTrace(hand, splitIntoMeldGroups(lastCombination(hand)))
    /\ aiFrame

PlanMeldAndDiscard(difficulty, playerIndex) ==
    /\ hasDrawn
    /\ playerIndex = currentPlayer
    /\ planned(difficulty, playersHaveOpened[playerIndex], playerHands[playerIndex],
               meldsToLayOf(difficulty, playersHaveOpened[playerIndex],
                            playerHands[playerIndex],
                            solveHandWithValidation(playerHands[playerIndex],
                                                    playerIndex)),
               playerIndex)

Difficulties == {"EASY", "MEDIUM", "HARD"}

\* the hands the solver is run on: the hands of 4 to MaxHand cards out of
\* seven kings and queens, and hands with runs, a joker, cards that fit the
\* melds of the table, overlapping melds and no meld at all
SolverBase == <<HK, DK, SK, ClK, HQ, DQ, SQ>>

HandInputs ==
    UNION {Range(getCombinations(SolverBase, n)) : n \in 4..Min(MaxHand, Len(SolverBase))}
    \cup { <<HK, DK, SK, ClK, HQ, DQ, SQ>>, <<SQ, HK, DQ, DK, HQ, SK, ClK>>,
           <<HK, DK, SK, ClK>>, <<Cl5, Cl6, Cl7, JkB>>, <<JkB, Cl7, Cl5, Cl6>>,
           <<Cl3, Cl4, Cl5, Cl6, Cl7, Cl8, Cl9, H7, D7>>,
           <<HQ, DQ, SQ, Cl3, Cl4, Cl5>>, <<HK, DK, SK, HQ, DQ, SQ, Cl3, Cl9>>,
           <<HK, DK, SK, ClK, HQ, DQ, SQ, HQ2, Cl3>>,
           <<HA, DA, SA, Cl7, Cl8, Cl9, S4>>, <<Cl3, Cl5, H8, S9>>,
           <<HK, DK, JkB, Cl5>>, <<Cl7, H8, Cl5, S9, DJ>>, <<Cl3, Cl5, Cl7, HK, DK, SK>>,
           <<H7, D7, S7, Cl7, Cl8, Cl9>>, <<HA, DA, SA, HK, HQ>>,
           <<HK, DK, SK, HQ, DQ, SQ, HA, DA, SA>>,
           <<HK, DK, SK>>, <<HK, DK>>, <<Cl5>>, <<HK, JkB>>, <<Cl5, Cl6, JkB, HK>>,
           <<Cl7, HK>> }

\* the melds on the table when the plan is made, by player
TableInputs ==
    { [p \in 0..1 |-> <<>>],
      [p \in 0..1 |-> IF p = 1 THEN << <<H7, D7, S7>> >> ELSE <<>>],
      [p \in 0..1 |-> IF p = 0 THEN << <<Cl4, JkB, Cl6>> >> ELSE << <<HA, DA, SA>> >>] }

\* the cards that are neither in the hand nor on the table, in the order of
\* the pool
otherCards(hand, table) ==
    SelectSeq([c \in Cards |-> c],
              LAMBDA c : c \notin Range(hand) \cup Range(flat(table[0] \o table[1])))

\* a game in which player 0 has drawn and is about to plan: the hand and the
\* table are the inputs, the other player holds up to 14 of the other cards
\* and the rest is the draw pile
PlanningInit ==
    \E hand \in HandInputs, table \in TableInputs, opened \in BOOLEAN :
        /\ Range(hand) \cap Range(flat(table[0] \o table[1])) = {}
        /\ table[0] # <<>> => opened
        /\ numPlayers = 2
        /\ currentPlayer = 0
        /\ phase = "MELD"
        /\ playerHands =
               [p \in 0..1 |->
                   IF p = 0 THEN hand
                   ELSE SubSeq(otherCards(hand, table), 1,
                               Min(StartingHandSize, Len(otherCards(hand, table))))]
        /\ playerMelds = table
        /\ playersHaveOpened = [p \in 0..1 |-> IF p = 0 THEN opened ELSE table[1] # <<>>]
        /\ currentMelds = <<>>
        /\ currentScore = 0
        /\ drawPile = SubSeq(otherCards(hand, table), StartingHandSize + 1,
                             Len(otherCards(hand, table)))
        /\ discardPile = <<>>
        /\ faceUp = [c \in Cards |-> ~includes(drawPile, c)]
        /\ events = <<CardDrawnFromDeck(0, hand[Len(hand)], Len(hand)),
                      PhaseChanged("MELD", 0)>>
        /\ ret = "true"
        /\ commands = 0
        /\ listeners = [t \in EventTypes |-> <<>>]
        /\ atEmission = <<>>
        /\ delivered = <<>>
        /\ handles = <<>>
        /\ running = <<>>

PlanningNext ==
    \/ \E p \in Players : SolveHandWithValidation(p)
    \/ \E difficulty \in Difficulties, p \in Players : PlanMeldAndDiscard(difficulty, p)

Planning == PlanningInit /\ [][PlanningNext]_vars

-----------------------------------------------------------------------------
(* Properties.                                                             *)

\* how often card c occurs in a sequence of cards
count(s, c) == Cardinality({i \in 1..Len(s) : s[i] = c})

tableCards == flat([q \in 1..numPlayers |-> flat(playerMelds[q - 1])])
handCards == flat([q \in 1..numPlayers |-> playerHands[q - 1]])

\* the places card c is in, counted over both piles, all hands and all melds
occurrences(c) ==
    count(drawPile, c) + count(discardPile, c) + count(handCards, c)
        + count(tableCards, c)

\* C1: every card of the pool is in exactly one of the draw pile, the
\* discard pile, a hand and a table meld, so the sizes of the piles, hands
\* and table melds add up to the number of cards created at newGame.
CardConservation ==
    /\ \A c \in Cards : occurrences(c) = 1
    /\ Len(drawPile) + Len(discardPile) + Len(handCards) + Len(tableCards)
           = Len(Pool)

\* the submitted cards are all in p's hand and every meld is a set or a run
legalSubmission(p, melds) ==
    /\ Range(flat(melds)) \subseteq Range(playerHands[p])
    /\ \A i \in 1..Len(melds) : isValidSet(melds[i]) \/ isValidRun(melds[i])

\* a rejected command: it returned false and emitted nothing
rejection == ret' = "false" /\ events' = <<>>

\* the last command emitted events, the first of them of type t
emits(t) == Len(events) > 0 /\ events[1].type = t

\* the first event of the command that made this step is of type t
emitted(t) == Len(events') > 0 /\ events'[1].type = t

\* the step is a call of newGame: it starts a game, or it throws in the deal
newGameStep == emitted("GAME_STARTED") \/ ret' = "throws"

\* C2: for the current player in phase MELD, with all cards in hand and all
\* melds legal: an unopened player's layDownMelds returns false and changes
\* nothing below 51 points, and returns true and opens the player from 51
\* points on; an opened player's layDownMelds returns true at any score.
OpeningGate ==
    /\ [](\A p \in Players, melds \in MeldLists :
            (phase = "MELD" /\ p = currentPlayer /\ legalSubmission(p, melds))
            => (layDownMeldsResult(p, melds)
                  <=> ( \/ playersHaveOpened[p]
                        \/ calculateTotalMeldScore(melds) >= 51 )))
    /\ [][/\ rejection => UNCHANGED game
          /\ emitted("MELDS_LAID_DOWN")
               => /\ ret' = "true"
                  /\ playersHaveOpened'[events'[1].playerIndex]
                  /\ \/ playersHaveOpened[events'[1].playerIndex]
                     \/ events'[1].meldScore >= 51]_vars

\* C2 witness: a player has just opened with exactly 51 points
OpenedAtExactly51 ==
    /\ ret = "true"
    /\ Len(events) = 1
    /\ events[1].type = "MELDS_LAID_DOWN"
    /\ events[1].meldScore = 51
    /\ playersHaveOpened[events[1].playerIndex]

\* no card is in two of the melds, or twice in one
noCardTwice(melds) == \A c \in Cards : count(flat(melds), c) <= 1

\* the cards of a sequence, with their multiplicity
cardBag(s) == [c \in Cards |-> count(s, c)]

\* C3: layDownMelds succeeds only if every card of every meld is in the
\* player's hand, every meld is a legal set or run and no card is in more
\* than one meld; then each melded card leaves the hand exactly once and is
\* in exactly one of the melds appended to the player's table melds.
LayDownSoundness ==
    [][\A p \in PlayerArgs, melds \in MeldLists :
          (LayDownMelds(p, melds) /\ ret' = "true")
          => LET laid == SubSeq(playerMelds'[p], Len(playerMelds[p]) + 1,
                                Len(playerMelds'[p]))
             IN  /\ legalSubmission(p, melds)
                 /\ noCardTwice(melds)
                 /\ Len(laid) = Len(melds)
                 /\ \A c \in Cards :
                        /\ count(flat(laid), c) = count(flat(melds), c)
                        /\ count(playerHands'[p], c)
                               = count(playerHands[p], c) - count(flat(melds), c)]_vars

\* the cards of both piles, with their multiplicity
pileBag == cardBag(drawPile \o discardPile)

\* card c leaves the piles and is appended to p's hand, the phase becomes MELD
drawn(p, c) ==
    /\ playerHands' = [playerHands EXCEPT ![p] = Append(@, c)]
    /\ pileBag' = [pileBag EXCEPT ![c] = @ - 1]
    /\ Len(drawPile') + Len(discardPile') = Len(drawPile) + Len(discardPile) - 1
    /\ phase' = "MELD"
    /\ UNCHANGED <<playerMelds, currentPlayer>>

\* C4: drawCard(p) returns true exactly when the phase is DRAW, p is the
\* current player, p holds fewer than 15 cards and the two piles are not both
\* empty; drawFromDiscard(p) exactly when the phase is DRAW, p is the current
\* player, p holds fewer than 15 cards and the discard pile is not empty.  On
\* success the head of the draw pile (refilled from the discard pile when it
\* was empty), respectively the top of the discard pile, moves into p's hand
\* and the phase becomes MELD; otherwise hands, piles, phase and current
\* player are unchanged.
DrawGating ==
    [][\A p \in PlayerArgs :
          /\ DrawCard(p)
               => /\ ret' = "true"
                       <=> ( /\ phase = "DRAW"
                             /\ p = currentPlayer
                             /\ Len(playerHands[p]) < 15
                             /\ ~(drawPile = <<>> /\ discardPile = <<>>) )
                  /\ ret' = "true"
                       => drawn(p, IF drawPile # <<>> THEN Head(drawPile)
                                                     ELSE Head(discardPile))
                  /\ ret' # "true"
                       => UNCHANGED <<playerHands, drawPile, discardPile,
                                      phase, currentPlayer>>
          /\ DrawFromDiscard(p)
               => /\ ret' = "true"
                       <=> ( /\ phase = "DRAW"
                             /\ p = currentPlayer
                             /\ Len(playerHands[p]) < 15
                             /\ discardPile # <<>> )
                  /\ ret' = "true"
                       => /\ drawn(p, discardPile[Len(discardPile)])
                          /\ drawPile' = drawPile
                  /\ ret' # "true"
                       => UNCHANGED <<playerHands, drawPile, discardPile,
                                      phase, currentPlayer>>]_vars

\* C4 witness: the second player has just drawn the top of the discard pile
DrewFromDiscard ==
    /\ ret = "true"
    /\ phase = "MELD"
    /\ emits("CARD_DRAWN_FROM_DISCARD")
    /\ Len(playerHands[currentPlayer]) = 15
    /\ playerHands[currentPlayer][15] = events[1].card

\* the number of cards in the two piles
pileSize == Len(drawPile) + Len(discardPile)

\* C5: within a game the phase changes only DRAW->MELD (a successful draw by
\* the current player), MELD->DRAW (a non-winning discard, which passes the
\* turn) and MELD->GAME_OVER (a winning discard), and DISCARD is never
\* entered; a card is drawn only by the step that leaves DRAW, so a turn has
\* exactly one draw, before any lay-down, add or discard; layDownMelds,
\* addCardToMeld and discardCard are rejected while the phase is DRAW.
TurnStructure ==
    /\ [](/\ phase \in {"DRAW", "MELD", "GAME_OVER"}
          /\ phase = "DRAW"
               => /\ \A p \in PlayerArgs, melds \in MeldLists :
                         ~layDownMeldsResult(p, melds)
                  /\ \A p \in PlayerArgs, c \in Cards :
                         /\ ~discardCardResult(p, c)
                         /\ \A owner \in PlayerArgs, idx \in MeldIndices :
                                ~addCardToMeldResult(p, c, owner, idx))
    /\ [][~newGameStep
           => /\ phase' # phase
                   => \/ /\ phase = "DRAW" /\ phase' = "MELD"
                         /\ pileSize' = pileSize - 1
                         /\ Len(playerHands'[currentPlayer])
                                = Len(playerHands[currentPlayer]) + 1
                         /\ currentPlayer' = currentPlayer
                      \/ /\ phase = "MELD" /\ phase' = "DRAW"
                         /\ emitted("CARD_DISCARDED")
                         /\ playerHands'[currentPlayer] # <<>>
                         /\ currentPlayer' = (currentPlayer + 1) % numPlayers
                      \/ /\ phase = "MELD" /\ phase' = "GAME_OVER"
                         /\ emitted("CARD_DISCARDED")
                         /\ playerHands'[currentPlayer] = <<>>
                         /\ currentPlayer' = currentPlayer
              /\ pileSize' < pileSize => phase = "DRAW" /\ phase' = "MELD"
              /\ ( \/ playerMelds' # playerMelds
                   \/ emitted("MELDS_LAID_DOWN")
                   \/ emitted("CARD_ADDED_TO_MELD") )
                   => phase = "MELD" /\ phase' = "MELD"
              /\ ( \/ pileSize' > pileSize
                   \/ emitted("CARD_DISCARDED")
                   \/ currentPlayer' # currentPlayer )
                   => phase = "MELD" /\ phase' # "MELD"]_vars

\* C5 witness: a non-winning discard has passed the turn to the second
\* player, who is in phase DRAW
TurnPassed ==
    /\ phase = "DRAW"
    /\ currentPlayer = 1
    /\ emits("CARD_DISCARDED")
    /\ events[2].type = "TURN_ENDED"

\* the points of a card left in hand: ace 10, 2..10 their rank, J Q K 10,
\* joker 0
handPoints(c) ==
    IF suit(c) \in {"JOKER_RED", "JOKER_BLACK"} THEN 0
    ELSE IF value(c) = 1 \/ value(c) >= 10 THEN 10
    ELSE value(c)

frozen ==
    /\ rejection
    /\ UNCHANGED <<phase, currentPlayer, playerHands, playerMelds, drawPile,
                   discardPile, playersHaveOpened>>

\* C7: once the phase is GAME_OVER every drawCard, drawFromDiscard,
\* layDownMelds, addCardToMeld and discardCard, for any player and
\* arguments, returns false, emits no event and leaves phase, current
\* player, hands, table melds, piles and hasOpened unchanged; only newGame
\* leaves GAME_OVER.
GameOverTerminal ==
    /\ [](phase = "GAME_OVER"
            => /\ \A p \in PlayerArgs :
                      ~drawCardAllowed(p) /\ ~drawFromDiscardAllowed(p)
               /\ \A p \in PlayerArgs, melds \in MeldLists :
                      ~layDownMeldsResult(p, melds)
               /\ \A p \in PlayerArgs, c \in Cards :
                      /\ ~discardCardResult(p, c)
                      /\ \A owner \in PlayerArgs, idx \in MeldIndices :
                             ~addCardToMeldResult(p, c, owner, idx))
    /\ [][phase = "GAME_OVER"
            => /\ \A p \in PlayerArgs :
                      (DrawCard(p) \/ DrawFromDiscard(p)) => frozen
               /\ \A p \in PlayerArgs, melds \in MeldLists :
                      LayDownMelds(p, melds) => frozen
               /\ \A p \in PlayerArgs, c \in Cards :
                      /\ DiscardCard(p, c) => frozen
                      /\ \A owner \in PlayerArgs, idx \in MeldIndices :
                             AddCardToMeld(p, c, owner, idx) => frozen
               /\ phase' # "GAME_OVER" => newGameStep]_vars

\* C7 witness: a command has been rejected after the game was won
RejectedAfterGameOver ==
    /\ phase = "GAME_OVER"
    /\ playerHands[currentPlayer] = <<>>
    /\ ret = "false"
    /\ events = <<>>

\* C8: in every reachable state with phase MELD the current player's hand
\* is not empty, so a discard can end the turn or the game: neither
\* layDownMelds nor addCardToMeld leaves the current player without a card.
NoStuckTurn == phase = "MELD" => playerHands[currentPlayer] # <<>>

\* table meld (owner, idx) exists, idx counted from 0
isTableMeld(owner, idx) ==
    /\ owner \in Players
    /\ idx \in 0..(Len(playerMelds[owner]) - 1)

completesJokerSet(meld, c) ==
    LET regular == {i \in 1..Len(meld) : ~isJoker(meld[i])}
    IN  /\ Len(meld) = 4
        /\ Cardinality(regular) = 3
        /\ ~isJoker(c)
        /\ \A i \in regular : value(meld[i]) = value(c)
        /\ Cardinality({suit(meld[i]) : i \in regular} \cup {suit(c)}) = 4

\* C10: when the current, opened player adds from hand the card that
\* completes a 4-card set whose fourth slot is a joker, addCardToMeld
\* succeeds, the joker goes from the meld to the player's hand and the added
\* card takes the joker's slot.
JokerReclaimInSet ==
    [][\A p \in Players, c \in Cards, owner \in Players, idx \in MeldIndices :
          ( /\ phase = "MELD"
            /\ p = currentPlayer
            /\ playersHaveOpened[p]
            /\ isTableMeld(owner, idx)
            /\ c \in Range(playerHands[p])
            /\ completesJokerSet(playerMelds[owner][idx + 1], c)
            /\ AddCardToMeld(p, c, owner, idx) )
          => LET meld == playerMelds[owner][idx + 1]
                 slot == CHOOSE i \in 1..4 : isJoker(meld[i])
             IN  /\ ret' = "true"
                 /\ playerMelds'[owner][idx + 1] = [meld EXCEPT ![slot] = c]
                 /\ meld[slot] \in Range(playerHands'[p])
                 /\ c \notin Range(playerHands'[p])]_vars

\* the rank of the card at position i of a run: the ace counts 14 next to
\* court cards and 1 otherwise
runRank(meld, i) ==
    IF value(meld[i]) = 1
          /\ \E k \in 1..Len(meld) : ~isJoker(meld[k]) /\ value(meld[k]) >= 11
    THEN 14 ELSE value(meld[i])

\* the meld is a run with exactly one joker: its other cards are of one suit
\* and of different ranks
isJokerRun(meld) ==
    LET regular == {i \in 1..Len(meld) : ~isJoker(meld[i])}
    IN  /\ Len(meld) >= 3
        /\ Cardinality(regular) = Len(meld) - 1
        /\ \A i, k \in regular :
               /\ suit(meld[i]) = suit(meld[k])
               /\ i # k => runRank(meld, i) # runRank(meld, k)

\* the ranks the joker of such a run stands for: the only rank missing
\* between its lowest and its highest card, or, when the cards lie one rank
\* per slot in ascending order, the rank of the joker's slot
jokerRanks(meld) ==
    LET regular == {i \in 1..Len(meld) : ~isJoker(meld[i])}
        ranks == {runRank(meld, i) : i \in regular}
        slot == CHOOSE i \in 1..Len(meld) : isJoker(meld[i])
    IN  {r \in 1..14 :
            \/ /\ r \notin ranks
               /\ \E lo, hi \in ranks :
                      /\ lo < r /\ r < hi
                      /\ ranks \cup {r} = lo..hi
            \/ \A i \in regular : runRank(meld, i) - i = r - slot}

\* C11: for any table run with a joker, of any owner and however it was
\* built, when the current, opened player adds from hand the card of the
\* run's suit and of the rank the joker stands for, addCardToMeld succeeds,
\* the card takes the joker's position, the joker moves to the player's hand
\* and the sizes of meld and hand stay as they were.
JokerReclaimInRun ==
    /\ [](\A p \in Players, c \in Cards, owner \in Players, idx \in MeldIndices :
            ( /\ phase = "MELD"
              /\ p = currentPlayer
              /\ playersHaveOpened[p]
              /\ isTableMeld(owner, idx)
              /\ c \in Range(playerHands[p])
              /\ ~isJoker(c)
              /\ LET meld == playerMelds[owner][idx + 1]
                 IN  /\ isJokerRun(meld)
                     /\ \E i \in 1..Len(meld) : suit(meld[i]) = suit(c)
                     /\ (IF value(c) = 1 THEN {1, 14} ELSE {value(c)})
                           \cap jokerRanks(meld) # {} )
            => /\ addCardToMeldResult(p, c, owner, idx)
               /\ replacesJoker(c, playerMelds[owner][idx + 1]))
    /\ [][(emitted("CARD_ADDED_TO_MELD") /\ events'[1].replacedJoker # 0)
            => LET e == events'[1]
                   meld == playerMelds[e.meldOwner][e.meldIndex + 1]
                   slot == CHOOSE i \in 1..Len(meld) : isJoker(meld[i])
               IN  /\ playerMelds'[e.meldOwner][e.meldIndex + 1]
                         = [meld EXCEPT ![slot] = e.card]
                   /\ e.replacedJoker = meld[slot]
                   /\ e.replacedJoker \in Range(playerHands'[e.playerIndex])
                   /\ Len(playerHands'[e.playerIndex])
                         = Len(playerHands[e.playerIndex])]_vars

\* every table meld is still at its address, and each card of it that
\* satisfies keeps[c] is still in it
meldsKeep(keeps) ==
    \A owner \in Players :
       /\ Len(playerMelds'[owner]) >= Len(playerMelds[owner])
       /\ \A i \in 1..Len(playerMelds[owner]) :
              /\ Len(playerMelds'[owner][i]) >= Len(playerMelds[owner][i])
              /\ \A c \in Range(playerMelds[owner][i]) :
                     keeps[c] => c \in Range(playerMelds'[owner][i])

\* C12 as stated: within a game a table meld keeps its address and no card
\* of it ever leaves it.
TableMeldsOnlyGrow ==
    [][~newGameStep => meldsKeep([c \in Cards |-> TRUE])]_vars

\* C12 amended: within a game a table meld keeps its address, never gets
\* shorter and keeps every card that is not a joker; a joker leaves it only
\* by a joker replacement, which puts the added card in its slot and the
\* joker into the acting player's hand.
TableMeldsKeepRegularCards ==
    [][~newGameStep
         => /\ meldsKeep([c \in Cards |-> ~isJoker(c)])
            /\ \A owner \in Players : \A i \in 1..Len(playerMelds[owner]) :
                  \A c \in Range(playerMelds[owner][i])
                            \ Range(playerMelds'[owner][i]) :
                     /\ emitted("CARD_ADDED_TO_MELD")
                     /\ events'[1].replacedJoker = c
                     /\ events'[1].meldOwner = owner
                     /\ events'[1].meldIndex = i - 1
                     /\ c \in Range(playerHands'[events'[1].playerIndex])
                     /\ playerMelds'[owner][i]
                          = [k \in 1..Len(playerMelds[owner][i]) |->
                               IF playerMelds[owner][i][k] = c
                               THEN events'[1].card
                               ELSE playerMelds[owner][i][k]]]_vars

\* C12 witness: a joker has just been taken out of a table run in exchange
\* for the card it stood for
JokerReclaimed ==
    /\ emits("CARD_ADDED_TO_MELD")
    /\ events[1].replacedJoker # 0
    /\ events[1].replacedJoker \in Range(playerHands[events[1].playerIndex])
    /\ events[1].replacedJoker
          \notin Range(playerMelds[events[1].meldOwner][events[1].meldIndex + 1])

\* C13: within a game hasOpened[p] never goes from true to false, and it
\* goes from false to true only by a successful layDownMelds of p itself;
\* no other command changes a hasOpened flag.
HasOpenedMonotonic ==
    [][~newGameStep
         => /\ DOMAIN playersHaveOpened' = DOMAIN playersHaveOpened
            /\ \A p \in Players :
                  /\ playersHaveOpened[p] => playersHaveOpened'[p]
                  /\ (~playersHaveOpened[p] /\ playersHaveOpened'[p])
                       => /\ ret' = "true"
                          /\ emitted("MELDS_LAID_DOWN")
                          /\ events'[1].playerIndex = p
                          /\ p = currentPlayer]_vars

\* C13 witness: the first player opened and has passed the turn, the
\* second player has not opened
OpenedAndPassed ==
    /\ playersHaveOpened[0]
    /\ ~playersHaveOpened[1]
    /\ currentPlayer = 1
    /\ emits("CARD_DISCARDED")

\* C14: in every reachable state each table meld passes the engine's set or
\* run check: layDownMelds and every addCardToMeld, appending or replacing
\* a joker, leave the table legal.
TableMeldsLegal ==
    \A owner \in Players :
       \A i \in 1..Len(playerMelds[owner]) :
          isValidSet(playerMelds[owner][i]) \/ isValidRun(playerMelds[owner][i])

\* C14 witness: a card has just been appended to a table run that is stored
\* out of rank order, its last card lower than its first
AppendedBelowRun ==
    /\ emits("CARD_ADDED_TO_MELD")
    /\ events[1].replacedJoker = 0
    /\ LET meld == playerMelds[events[1].meldOwner][events[1].meldIndex + 1]
       IN  /\ isValidRun(meld)
           /\ meld[Len(meld)] = events[1].card
           /\ value(meld[Len(meld)]) < value(meld[1])

\* C19: a rejected drawCard, drawFromDiscard, layDownMelds, addCardToMeld or
\* discardCard (wrong phase, wrong or out-of-range player, card not in hand,
\* no such meld, illegal meld, opening threshold unmet, nothing to draw)
\* returns false, emits no event at all and leaves the whole game unchanged.
SilentRejections ==
    [][ret' = "false" => events' = <<>> /\ UNCHANGED game]_vars

\* the number of melds on the table
tableMeldCount == Len(flat([q \in 1..numPlayers |-> playerMelds[q - 1]]))

\* the events of a successful draw of the current player, from what the
\* step did to the piles
drawEvents ==
    LET p == currentPlayer
        hand == playerHands'[p]
        c == hand[Len(hand)]
        moved == PhaseChanged("MELD", p)
    IN  IF drawPile' = Tail(refilledDrawPile) /\ Len(discardPile') <= Len(discardPile)
           /\ (Len(drawPile) = 0 => discardPile' = <<>>)
           /\ (Len(drawPile) > 0 => discardPile' = discardPile)
        THEN { (IF Len(drawPile) = 0 THEN <<DrawPileShuffled(Len(discardPile))>> ELSE <<>>)
                   \o <<CardDrawnFromDeck(p, c, Len(hand)), moved>> }
                 \cup (IF Len(drawPile) = 0 /\ Len(discardPile) = 1
                       THEN {<<CardDrawnFromDiscard(p, c, Len(hand)), moved>>} ELSE {})
        ELSE {<<CardDrawnFromDiscard(p, c, Len(hand)), moved>>}

\* the events of a successful discard of the current player
discardEvents ==
    LET p == currentPlayer
        c == discardPile'[Len(discardPile')]
        discarded == CardDiscarded(p, c, Len(playerHands'[p]))
    IN  IF phase' = "GAME_OVER"
        THEN <<discarded, PhaseChanged("GAME_OVER", p), GameOver(p, finalScores(playerHands'))>>
        ELSE <<discarded,
               [type |-> "TURN_ENDED", previousPlayer |-> p, nextPlayer |-> currentPlayer'],
               PhaseChanged("DRAW", currentPlayer'),
               PlayerTurnStarted(currentPlayer', "DRAW")>>

\* the joker a step moved from the table into the hand of the current
\* player, 0 when there is none
reclaimedJoker ==
    LET p == currentPlayer
        hand == playerHands'[p]
    IN  IF Len(hand) > 0 /\ isJoker(hand[Len(hand)]) /\ ~includes(playerHands[p], hand[Len(hand)])
        THEN hand[Len(hand)] ELSE 0

\* C21: newGame emits GAME_STARTED, PLAYER_TURN_STARTED(0, DRAW); a draw emits
\* DRAW_PILE_SHUFFLED (only after a refill), CARD_DRAWN_FROM_DECK or
\* CARD_DRAWN_FROM_DISCARD, PHASE_CHANGED(MELD); layDownMelds emits one
\* MELDS_LAID_DOWN; addCardToMeld emits one CARD_ADDED_TO_MELD with the
\* reclaimed joker or null; a discard emits CARD_DISCARDED, TURN_ENDED,
\* PHASE_CHANGED(DRAW), PLAYER_TURN_STARTED, and a winning discard
\* CARD_DISCARDED, PHASE_CHANGED(GAME_OVER), GAME_OVER without TURN_ENDED.
CanonicalEvents ==
    [][/\ ret' = "void" =>
              events' = <<GameStarted(numPlayers'), PlayerTurnStarted(0, "DRAW")>>
       /\ ret' = "true" =>
              IF phase = "DRAW" /\ phase' = "MELD"
              THEN events' \in drawEvents
              ELSE IF Len(discardPile') > Len(discardPile)
              THEN events' = discardEvents
              ELSE IF tableMeldCount' > tableMeldCount
              THEN /\ Len(events') = 1
                   /\ events'[1].type = "MELDS_LAID_DOWN"
                   /\ events'[1].playerIndex = currentPlayer
              ELSE IF playerMelds' # playerMelds
              THEN /\ Len(events') = 1
                   /\ events'[1].type = "CARD_ADDED_TO_MELD"
                   /\ events'[1].playerIndex = currentPlayer
                   /\ events'[1].replacedJoker = reclaimedJoker
              ELSE \/ events' = <<>>
                   \/ events' = <<MeldsLaidDown(currentPlayer, <<>>, 0, TRUE)>>]_vars

\* a game was won by a discard: three events, none of them TURN_ENDED
WinningDiscardEvents ==
    /\ Len(events) = 3
    /\ events[1].type = "CARD_DISCARDED"
    /\ events[2] = PhaseChanged("GAME_OVER", currentPlayer)
    /\ events[3].type = "GAME_OVER"

HandCapacity ==
    \A p \in Players :
        /\ Len(playerHands[p]) <= MaxHandSize
        /\ phase = "DRAW" => Len(playerHands[p]) <= MaxHandSize - 1

\* the player to act has drawn a fifteenth card
FullHand ==
    /\ phase = "MELD"
    /\ Len(playerHands[currentPlayer]) = MaxHandSize
    /\ Len(events) > 0
    /\ events[Len(events)] = PhaseChanged("MELD", currentPlayer)

unopenedHandSize(p) ==
    IF phase = "MELD" /\ currentPlayer = p THEN MaxHandSize ELSE StartingHandSize

FaceOrientation ==
    /\ \A p \in Players : \A i \in 1..Len(playerHands[p]) : faceUp[playerHands[p][i]]
    /\ \A i \in 1..Len(discardPile) : faceUp[discardPile[i]]
    /\ \A i \in 1..Len(drawPile) : ~faceUp[drawPile[i]]

-----------------------------------------------------------------------------
(* Properties of the validators and of the scoring, under Validation.      *)

\* validateMelds was the last command; ret is its MeldValidationResult
validated == events = <<>>

\* the rule of a set: 3 or 4 cards, at most one joker, the other cards of
\* one rank and of pairwise distinct suits
setRule(cards) ==
    LET regular == {i \in 1..Len(cards) : ~isJoker(cards[i])}
    IN  /\ Len(cards) \in {3, 4}
        /\ Cardinality({i \in 1..Len(cards) : isJoker(cards[i])}) <= 1
        /\ \A i, j \in regular : value(cards[i]) = value(cards[j])
        /\ \A i, j \in regular : i # j => suit(cards[i]) # suit(cards[j])

\* C15: for every selection of cards, the set check is true if and only if
\* the selection has 3 or 4 cards, at most one joker, all its other cards of
\* the same rank and of pairwise distinct suits; validateMelds then finds
\* the whole selection as one meld.
SetLegality ==
    validated =>
        /\ isValidSet(ret.selectedCards) <=> setRule(ret.selectedCards)
        /\ setRule(ret.selectedCards) => ret.validMelds = <<ret.selectedCards>>

\* a set of four with a joker was validated and found as one meld of 40 points
SetWithJokerValidated ==
    /\ validated
    /\ ret.selectedCards = <<HK, JkB, DK, SK>>
    /\ ret.validMelds = <<ret.selectedCards>>
    /\ ret.totalScore = 40

\* the rank of the card at position i of a run whose aces count as aceRank
rankAt(cards, i, aceRank) == IF value(cards[i]) = 1 THEN aceRank ELSE value(cards[i])

\* the rule of a run, in the order given: at least 3 cards, a regular card,
\* the regular cards of one suit, and one rank step per slot between any
\* two regular cards, in one direction (step) over the whole sequence
runRule(cards) ==
    LET regular == {i \in 1..Len(cards) : ~isJoker(cards[i])}
    IN  /\ Len(cards) >= 3
        /\ regular # {}
        /\ \A i, j \in regular : suit(cards[i]) = suit(cards[j])
        /\ \E aceRank \in {1, 14}, step \in {1, -1} :
               \A i, j \in regular :
                   i < j => rankAt(cards, j, aceRank) - rankAt(cards, i, aceRank)
                                = step * (j - i)

\* C16: a selection is accepted as a run if and only if it has at least 3
\* cards, a regular card, all regular cards of one suit and, in the order
\* given, one rank step per slot between its regular cards, all ascending or
\* all descending.
RunLegality ==
    validated =>
        /\ isValidRun(ret.selectedCards) <=> runRule(ret.selectedCards)
        /\ ~setRule(ret.selectedCards) /\ ~runRule(ret.selectedCards)
               => ret.validMelds # <<ret.selectedCards>>

\* the rank the slot at position i of an accepted run stands for, in the
\* order the run is stored in (#sortRunCards): one rank per slot, counted
\* from the run's first regular card, the ace high beside a face card
slotRank(cards, i) ==
    LET stored == sortRunCards(cards)
        regular == {k \in 1..Len(stored) : ~isJoker(stored[k])}
        first == CHOOSE k \in regular : \A other \in regular : k <= other
        hasHighCards == \E k \in regular : value(stored[k]) >= 11
        firstRank == IF value(stored[first]) = 1 /\ hasHighCards THEN 14
                     ELSE value(stored[first])
    IN  firstRank + (i - first)

\* C17: the ace stands at the low or at the high end of a run and a run
\* never goes past it: Q-K-A of one suit is accepted, Q-K-A-2 is rejected, and
\* every slot of an accepted run, a joker's included, stands for a rank
\* from 1 (ace low) to 14 (ace high).
AceHandling ==
    validated =>
        /\ ret.selectedCards = <<DQ, DK, DA>> => ret.validMelds = <<ret.selectedCards>>
        /\ ret.selectedCards = <<DQ, DK, DA, D2>> => ~isValidRun(ret.selectedCards)
        /\ isValidRun(ret.selectedCards) =>
               \A i \in 1..Len(ret.selectedCards) :
                   slotRank(ret.selectedCards, i) \in 1..14

\* the points of a rank: 10 for an ace (low or high), the rank for 2..10,
\* 10 for jack, queen and king
rankPoints(r) == IF r = 1 \/ r = 14 THEN 10 ELSE IF r <= 10 THEN r ELSE 10

\* the score of a set: every card, the joker included, counts the points
\* of the common rank
setPoints(cards) ==
    LET regular == {i \in 1..Len(cards) : ~isJoker(cards[i])}
        rank == value(cards[CHOOSE i \in regular : TRUE])
    IN  Len(cards) * rankPoints(rank)

\* the scores of a run in the order given: the sum of the points of the
\* ranks of its slots, one rank per slot counted from its regular cards, for
\* every reading (ace low or high, ascending or descending) under which the
\* sequence is a run within the ranks 1..14
runPoints(cards) ==
    LET regular == {i \in 1..Len(cards) : ~isJoker(cards[i])}
        first == CHOOSE k \in regular : \A other \in regular : k <= other
        rank(i, aceRank, step) == rankAt(cards, first, aceRank) + step * (i - first)
    IN  { SumSeq([i \in 1..Len(cards) |-> rankPoints(rank(i, aceRank, step))]) :
            <<aceRank, step>> \in
                {r \in {1, 14} \X {1, -1} :
                    /\ \A i \in regular : rankAt(cards, i, r[1]) = rank(i, r[1], r[2])
                    /\ \A i \in 1..Len(cards) : rank(i, r[1], r[2]) \in 1..14} }

\* C18: the score of a legal meld is the sum over its cards of 10 for an
\* ace, the rank for 2..10, 10 for jack, queen and king, and for a joker the
\* points of the rank it stands for: the common rank in a set, the rank of its
\* slot in a run, counted one rank per slot from the run's regular cards.
Scoring ==
    validated /\ ret.validMelds = <<ret.selectedCards>> =>
        /\ setRule(ret.selectedCards) =>
               ret.totalScore = setPoints(ret.selectedCards)
        /\ runRule(ret.selectedCards) /\ runPoints(ret.selectedCards) # {} =>
               ret.totalScore \in runPoints(ret.selectedCards)

-----------------------------------------------------------------------------
(* Properties of the emitter, under Delivery.                              *)

\* C20: every callback subscribed to the type of an event when the event is
\* emitted is invoked exactly once with it, in the order of subscription,
\* whatever the callbacks do during the delivery, such as unsubscribing
\* themselves or another callback.
EventDelivery == delivered = atEmission

-----------------------------------------------------------------------------
(* Properties of the queries, under Validation.                            *)

\* C22: the read-only queries, validateMelds among them, change nothing
\* observable: the values returned by currentScore() and getCurrentMelds()
\* are the same after the call as before it.
QueriesReadOnly == [][UNCHANGED <<currentScore, currentMelds>>]_vars

-----------------------------------------------------------------------------
(* Properties of the stored melds.                                         *)

\* the jokers of a set come after its other cards
jokersTrail(meld) ==
    \A i, j \in 1..Len(meld) : isJoker(meld[i]) /\ ~isJoker(meld[j]) => j < i

\* the cards of a run ascend by one rank per position, a joker standing in
\* each gap
rankOrdered(meld) ==
    \E aceRank \in {1, 14} :
        LET rank(i) == IF value(meld[i]) = 1 THEN aceRank ELSE value(meld[i])
        IN  \A i, j \in 1..Len(meld) :
                i < j /\ ~isJoker(meld[i]) /\ ~isJoker(meld[j]) => rank(j) - rank(i) = j - i

\* C27: every meld layDownMelds stores is in canonical order, whatever the
\* order the caller listed its cards in: a set with its joker last, a run in
\* rank order with the jokers in the gaps they fill.
CanonicalStorage ==
    emits("MELDS_LAID_DOWN") =>
        \A i \in 1..Len(events[1].melds) :
            LET meld == events[1].melds[i]
            IN  /\ includes(playerMelds[events[1].playerIndex], meld)
                /\ IF setRule(meld) THEN jokersTrail(meld) ELSE rankOrdered(meld)

-----------------------------------------------------------------------------
(* Properties of the computer opponent, under Planning.                    *)

\* the hand the player to act plans with
planningHand == playerHands[currentPlayer]

\* the last call was solveHandWithValidation, ret is its HandSolution
solvedHand == events = <<>> /\ "melds" \in DOMAIN ret

\* the last call was planMeldAndDiscard, ret is its plan
plannedHand == events = <<>> /\ "meldsToLay" \in DOMAIN ret

\* C28: the melds of the solver's solution share no card, each is a set or a
\* run for the engine's validators, every card of the hand is in exactly one
\* meld or in remainingCards, and totalScore is the sum of the scores of the
\* melds.
SolverPartition ==
    solvedHand =>
        /\ \A i \in 1..Len(ret.melds) : isValidMeld(ret.melds[i])
        /\ \A c \in Cards :
               count(flat(ret.melds) \o ret.remainingCards, c) = count(planningHand, c)
        /\ ret.totalScore = calculateTotalMeldScore(ret.melds)

\* a hand was solved into two melds and cards that are left over
SolvedInTwoMelds ==
    /\ solvedHand
    /\ Len(ret.melds) = 2
    /\ Len(ret.remainingCards) >= 2

\* the cards of the hand that are in the set, in the order of the hand
inHandOrder(hand, cards) == SelectSeq(hand, LAMBDA c : c \in cards)

\* the groups of cards of the hand that are a set or a run, and no group
legalGroups(hand) ==
    {{}} \cup {g \in SUBSET Range(hand) :
                  Cardinality(g) >= 3 /\ isValidMeld(inHandOrder(hand, g))}

\* the score of a group of cards of the hand
groupScore(hand, g) == IF g = {} THEN 0 ELSE calculateMeldValue(inHandOrder(hand, g))

\* C29: the total score of the solver's solution is the largest that melds
\* sharing no card can reach on the hand (up to three melds: the hands have
\* at most 9 cards).
SolverOptimal ==
    solvedHand =>
        \A g1, g2, g3 \in legalGroups(planningHand) :
            g1 \cap g2 = {} /\ g1 \cap g3 = {} /\ g2 \cap g3 = {}
                => groupScore(planningHand, g1) + groupScore(planningHand, g2)
                       + groupScore(planningHand, g3) <= ret.totalScore

\* the cards of the hand a plan neither lays down nor adds to a meld
leftToDiscard ==
    SelectSeq(planningHand,
              LAMBDA c : /\ c \notin Range(flat(ret.meldsToLay))
                         /\ \A k \in 1..Len(ret.cardsToAddToMelds) :
                                ret.cardsToAddToMelds[k].card # c)

\* C30: for a hand of at least 4 cards the melds of the plan leave a card of
\* the hand outside, and the melds and the cards to add together leave at
\* least one card of the hand to discard.
DiscardSafety ==
    plannedHand /\ Len(planningHand) >= 4 =>
        /\ Len(outsideMelds(planningHand, ret.meldsToLay)) >= 1
        /\ Len(leftToDiscard) >= 1
        /\ Len(flat(ret.meldsToLay)) + Len(ret.cardsToAddToMelds) < Len(planningHand)

\* a plan lays melds down and adds cards to the table, and keeps one card
PlanKeepsOneCard ==
    /\ plannedHand
    /\ Len(planningHand) >= 4
    /\ ret.meldsToLay # <<>>
    /\ ret.cardsToAddToMelds # <<>>
    /\ Len(leftToDiscard) = 1

\* C31: the card a plan discards is not a joker when a card that is no
\* joker is among the cards of the hand outside the melds of the plan.
NeverDiscardsJoker ==
    plannedHand /\ regularsOf(outsideMelds(planningHand, ret.meldsToLay)) # <<>> =>
        ~isJoker(ret.cardToDiscard)

\* C40: the card a plan discards is a card of the hand, in none of the
\* melds the plan lays down and not one of the cards the plan adds to the
\* melds of the table, so that it is still in the hand when the melds are
\* laid down and the cards added.
PlanExecutable ==
    plannedHand =>
        /\ includes(planningHand, ret.cardToDiscard)
        /\ ret.cardToDiscard \notin Range(flat(ret.meldsToLay))
        /\ \A k \in 1..Len(ret.cardsToAddToMelds) :
               ret.cardsToAddToMelds[k].card # ret.cardToDiscard

-----------------------------------------------------------------------------
(* Properties of the validation result, under Validation.                  *)

\* C32: the validMelds of a validation share no card and hold no card
\* twice, each is a set or a run, invalidCards are the selected cards that
\* are in none of them, and totalScore is the sum of their scores.
ValidationPartition ==
    validated =>
        /\ \A c \in Cards : count(flat(ret.validMelds), c) <= 1
        /\ \A i \in 1..Len(ret.validMelds) : isValidMeld(ret.validMelds[i])
        /\ ret.invalidCards =
               SelectSeq(ret.selectedCards,
                         LAMBDA c : \A i \in 1..Len(ret.validMelds) :
                                        ~includes(ret.validMelds[i], c))
        /\ ret.totalScore = calculateTotalMeldScore(ret.validMelds)

\* C33: the validators of AIPlayer accept the selections the validators of
\* Remi accept, and no other: isValidSet agrees with #isValidSet and
\* isValidRun with #isValidRun.  (The validators read suit and value only; a
\* selection that names the joker of the pool twice is a selection with two
\* of the four jokers of the deck.)
ValidatorAgreement ==
    validated =>
        /\ aiIsValidSet(ret.selectedCards) <=> isValidSet(ret.selectedCards)
        /\ aiIsValidRun(ret.selectedCards) <=> isValidRun(ret.selectedCards)

-----------------------------------------------------------------------------
(* Properties of the unsubscribe functions, under Subscription.            *)

\* C34: the function on returned removes the entry of its own call of on and
\* no other, and calling it again changes nothing: the entry of a call of on
\* is among the callbacks of its type exactly as long as the function the
\* call returned has not been called.
UnsubscribeHandle ==
    \A h \in 1..Len(handles) :
        /\ handles[h].at > 0 <=> ~handles[h].called
        /\ handles[h].at > 0 =>
               listeners[handles[h].eventType][handles[h].at] = handles[h].callback

-----------------------------------------------------------------------------
(* Properties of the commands of a listener, under Reentrancy.             *)

\* C35: while a listener of CARD_DRAWN_FROM_DECK or CARD_DRAWN_FROM_DISCARD
\* runs the phase is MELD and a drawCard or drawFromDiscard of the player
\* who drew returns false; while a listener of CARD_DISCARDED runs a
\* discardCard of the player who discarded returns false.
OneDrawPerTurn ==
    [][inListener /\ running' = running =>
          /\ running[1].command \in {"drawCard", "drawFromDiscard"} =>
                 /\ phase = "MELD"
                 /\ DrawCard(running[1].playerIndex) => ret' = "false"
                 /\ DrawFromDiscard(running[1].playerIndex) => ret' = "false"
          /\ running[1].command = "discardCard" =>
                 \A c \in Cards :
                     DiscardCard(running[1].playerIndex, c) => ret' = "false"]_vars

-----------------------------------------------------------------------------
(* Properties of the score of a lay-down.                                  *)

\* C38: the meldScore of MELDS_LAID_DOWN, which is the score layDownMelds
\* held against the opening requirement, is the score of the melds of the
\* event, which are the melds as they are stored; and two listings of the
\* cards of a legal run are both legal runs of the same score.
ScoreOrderIndependent ==
    /\ emits("MELDS_LAID_DOWN") =>
           events[1].meldScore = calculateTotalMeldScore(events[1].melds)
    /\ \A m, n \in MeldInputs :
           isValidRun(m) /\ Len(m) = Len(n) /\ Range(m) = Range(n) =>
               /\ isValidRun(n)
               /\ calculateMeldValue(m) = calculateMeldValue(n)

====
